---- MODULE Spec2Model ----
(***************************************************************************)
(* The ETL pipeline of energy-stats.                                       *)
(*                                                                         *)
(*   extract_ember       Ember API  ->  MonthlyGenerationData (staging)    *)
(*   transform_and_load  staging    ->  Country, Fuel, CountryFuel,        *)
(*                                      CountryFuelYear, then the ranking  *)
(*                                      pass _apply_rankings               *)
(*                                                                         *)
(* Representation.  A date is a month number  year * 12 + (month - 1)      *)
(* (every staged date is the first of a month).  generation_twh is an      *)
(* integer number of TWh; percentages (shares, growth rates) are fixed     *)
(* point numbers with three decimals (53.846 % is 53846).  A nullable      *)
(* float is <<>> for None and <<v>> for the value v.                       *)
(***************************************************************************)
EXTENDS Integers, Sequences, FiniteSets, TLC

\* ------------------------------------------------------------------ bounds
MaxRuns == 2        \* transform_and_load invocations in one behaviour
MaxExtracts == 2    \* extract_ember invocations in one behaviour
MaxLoads == 1       \* invocations of load_data, and of transform_and_load beside it

\* ------------------------------------------------------- program constants
WindowSize == 12    \* unique_dates[-12:], unique_dates[-24:-12]

LOW_CARBON_FUELS == {"Hydro", "Nuclear", "Wind", "Solar", "Bioenergy", "Other renewables"}

NET_IMPORTS == "Net imports"

\* Three decimals are kept of every percentage.
Milli == 10 * 10 * 10

None == <<>>

Some(v) == <<v>>

\* ------------------------------------------------------------------- dates
Date(y, m) == y * 12 + (m - 1)

Year(d) == d \div 12

Month(d) == (d % 12) + 1

\* ReplaceYearMinusOne going back one month instead of one year.
ReplaceYearMinusOne_month(d) == d - 1

\* date.replace(year=date.year - 1)
ReplaceYearMinusOne(d) == Date(Year(d) - 1, Month(d))

\* ---------------------------------------------------------- Python helpers
Max2(a, b) == IF a > b THEN a ELSE b

Min2(a, b) == IF a < b THEN a ELSE b

RECURSIVE Sorted(_)
\* sorted(S) of a set of integers
Sorted(S) ==
    IF S = {} THEN <<>>
    ELSE LET least == CHOOSE x \in S : \A y \in S : x <= y
         IN  <<least>> \o Sorted(S \ {least})

\* The position a slice bound i denotes in a list of length n.
SliceBound(n, i) == IF i < 0 THEN Max2(n + i, 0) ELSE Min2(i, n)

\* s[start:stop]
Slice(s, start, stop) ==
    LET a == SliceBound(Len(s), start)
        b == SliceBound(Len(s), stop)
    IN  IF a >= b THEN <<>> ELSE SubSeq(s, a + 1, b)

\* s[start:]
SliceFrom(s, start) == Slice(s, start, Len(s))

Range(s) == {s[i] : i \in DOMAIN s}

RECURSIVE SumValues(_, _, _)
\* The sum over the values v of V of v times the number of x in S with f[x] = v.
SumValues(V, f, S) ==
    IF V = {} THEN 0
    ELSE LET v == CHOOSE w \in V : TRUE
         IN  v * Cardinality({x \in S : f[x] = v}) + SumValues(V \ {v}, f, S)

\* sum(f[x] for x in S), f a function on S: the terms are added value by value.
SumFn(f, S) == SumValues({f[x] : x \in S}, f, S)

\* sum(s[i] for i), s a list of numbers
SumSeq(s) == SumFn(s, DOMAIN s)

\* The spellings of a lower-case word in upper and lower case letters.
Spellings(word) ==
    CASE word = "fra" ->
            {"fra", "frA", "fRa", "fRA", "Fra", "FrA", "FRa", "FRA"}
      [] word = "deu" ->
            {"deu", "deU", "dEu", "dEU", "Deu", "DeU", "DEu", "DEU"}
      [] word = "gbr" ->
            {"gbr", "gbR", "gBr", "gBR", "Gbr", "GbR", "GBr", "GBR"}
      [] word = "xxx" ->
            {"xxx", "xxX", "xXx", "xXX", "Xxx", "XxX", "XXx", "XXX"}
      [] OTHER -> {word}

\* str.upper(): every spelling of a code that a command line of the model
\* can carry, of the unknown code "xxx" included, gives the code in capitals.
Upper(c) ==
    CASE c \in Spellings("fra") -> "FRA"
      [] c \in Spellings("deu") -> "DEU"
      [] c \in Spellings("gbr") -> "GBR"
      [] c \in Spellings("xxx") -> "XXX"
      [] OTHER -> c

\* GrowthPct without the subtraction of 1.
GrowthPct_ratio(a, b) == ((a * 100 * Milli) \div b)

\* ((a / b) - 1) * 100, for b > 0
GrowthPct(a, b) == ((a * 100 * Milli) \div b) - 100 * Milli

\* (a / b) * 100, for b > 0
RatioPct(a, b) == (a * 100 * Milli) \div b

\* ------------------------------------------------ transformation helpers
\* A queryset of MonthlyGenerationData is the set of its rows; a row is
\*   [id, country, country_code, is_aggregate_entity, date, fuel_type,
\*    is_aggregate_series, generation_twh, share_of_generation_pct].

\* {r.date: r.<field> for r in records}.get(d, 0.0): `records` is the list
\* the query returned, the later row of one date overwrites the earlier one.
DictGet(records, field, d) ==
    LET at == {i \in DOMAIN records : records[i].date = d}
    IN  IF at = {} THEN 0
        ELSE records[CHOOSE i \in at : \A j \in at : j <= i][field]

\* DateWindows with the previous window cut one month too late.
DateWindows_late(unique_dates) ==
    IF unique_dates = <<>> THEN << <<>>, <<>> >>
    ELSE << SliceFrom(unique_dates, 0 - WindowSize),
            Slice(unique_dates, 1 - 2 * WindowSize, 1 - WindowSize) >>

\* _get_date_windows, from `unique_dates` on: <<latest_12, previous_12>>
DateWindows(unique_dates) ==
    IF unique_dates = <<>> THEN << <<>>, <<>> >>
    ELSE << SliceFrom(unique_dates, 0 - WindowSize),
            Slice(unique_dates, 0 - 2 * WindowSize, 0 - WindowSize) >>

_get_date_windows(records) == DateWindows(Sorted({r.date : r \in records}))

\* sum(r.generation_twh for r in rows)
Generation(rows) == SumFn([r \in rows |-> r.generation_twh], rows)

\* TotalByDate without the rows of aggregate series and of no fuel type.
TotalByDate_fuels(records, d) ==
    Generation({r \in records : /\ r.date = d
                                /\ ~r.is_aggregate_series
                                /\ r.fuel_type # ""})

\* total_by_date.get(d, 0.0) of _transform_country_metrics
TotalByDate(records, d) ==
    Generation({r \in records : r.date = d})

\* LowCarbonPct dividing by every total other than 0.
LowCarbonPct_nonzero(low_carbon_generation, total_generation_except_imports) ==
    IF total_generation_except_imports # 0
    THEN Some(RatioPct(low_carbon_generation, total_generation_except_imports))
    ELSE None

\* _transform_country_metrics, lines 157-159
LowCarbonPct(low_carbon_generation, total_generation_except_imports) ==
    IF total_generation_except_imports > 0
    THEN Some(RatioPct(low_carbon_generation, total_generation_except_imports))
    ELSE None

\* CountedRecords without the skip of "Net imports".
CountedRecords_imports(records, latest_12_dates) ==
    {r \in records : r.date \in Range(latest_12_dates)}

\* The rows the second loop of _transform_country_metrics adds up.
CountedRecords(records, latest_12_dates) ==
    {r \in records : /\ r.fuel_type # NET_IMPORTS
                     /\ r.date \in Range(latest_12_dates)}

\* _transform_country_metrics, lines 144-159: low_carbon_pct
low_carbon_pct(records, latest_12_dates) ==
    LowCarbonPct(
        Generation({r \in CountedRecords(records, latest_12_dates) :
                        r.fuel_type \in LOW_CARBON_FUELS}),
        Generation(CountedRecords(records, latest_12_dates)))

_transform_country_metrics(records, latest_12_dates, previous_12_dates) ==
    [latest_total |->
        SumSeq([i \in DOMAIN latest_12_dates |->
                    TotalByDate(records, latest_12_dates[i])]),
     previous_total |->
        SumSeq([i \in DOMAIN previous_12_dates |->
                    TotalByDate(records, previous_12_dates[i])]),
     low_carbon_pct |-> low_carbon_pct(records, latest_12_dates)]

\* FuelMetrics with a growth of 0 where there is no previous total.
FuelMetrics_zero(fuel_latest, fuel_previous, avg_share, has_latest, latest_month_gen, prev_year_month_gen, latest_month_share) ==
    [latest_total |-> fuel_latest,
     previous_total |-> fuel_previous,
     avg_share |-> avg_share,
     annual_yoy_growth |->
        IF fuel_previous > 0 THEN Some(GrowthPct(fuel_latest, fuel_previous))
        ELSE Some(0),
     month_yoy_growth |->
        IF has_latest /\ prev_year_month_gen > 0
        THEN Some(GrowthPct(latest_month_gen, prev_year_month_gen))
        ELSE None,
     latest_month_gen |-> IF has_latest THEN latest_month_gen ELSE 0,
     latest_month_share |-> IF has_latest THEN latest_month_share ELSE 0]

\* _transform_fuel_metrics, lines 183-212
FuelMetrics(fuel_latest, fuel_previous, avg_share, has_latest, latest_month_gen, prev_year_month_gen, latest_month_share) ==
    [latest_total |-> fuel_latest,
     previous_total |-> fuel_previous,
     avg_share |-> avg_share,
     annual_yoy_growth |->
        IF fuel_previous > 0 THEN Some(GrowthPct(fuel_latest, fuel_previous))
        ELSE None,
     month_yoy_growth |->
        IF has_latest /\ prev_year_month_gen > 0
        THEN Some(GrowthPct(latest_month_gen, prev_year_month_gen))
        ELSE None,
     latest_month_gen |-> IF has_latest THEN latest_month_gen ELSE 0,
     latest_month_share |-> IF has_latest THEN latest_month_share ELSE 0]

\* fuel_by_date.get(d, 0.0)
FuelByDate(fuel_records, d) ==
    DictGet(fuel_records, "generation_twh", d)

\* share_by_date.get(d, 0.0)
ShareByDate(fuel_records, d) ==
    DictGet(fuel_records, "share_of_generation_pct", d)

\* _transform_fuel_metrics over the windows of the months of the fuel itself.
_transform_fuel_metrics_own(fuel_records, latest_12_dates, previous_12_dates) ==
    LET own == _get_date_windows(Range(fuel_records))
        has_latest == own[1] # <<>>
        latest_month_date == own[1][Len(own[1])]
    IN  FuelMetrics(
            SumSeq([i \in DOMAIN own[1] |->
                        FuelByDate(fuel_records, own[1][i])]),
            SumSeq([i \in DOMAIN own[2] |->
                        FuelByDate(fuel_records, own[2][i])]),
            IF has_latest
            THEN SumSeq([i \in DOMAIN own[1] |->
                            ShareByDate(fuel_records, own[1][i])])
                 \div Len(own[1])
            ELSE 0,
            has_latest,
            IF has_latest THEN FuelByDate(fuel_records, latest_month_date) ELSE 0,
            IF has_latest
            THEN FuelByDate(fuel_records, ReplaceYearMinusOne(latest_month_date))
            ELSE 0,
            IF has_latest THEN ShareByDate(fuel_records, latest_month_date) ELSE 0)

\* _transform_fuel_metrics, lines 167-212
_transform_fuel_metrics(fuel_records, latest_12_dates, previous_12_dates) ==
    LET has_latest == latest_12_dates # <<>>
        latest_month_date == latest_12_dates[Len(latest_12_dates)]
    IN  FuelMetrics(
            SumSeq([i \in DOMAIN latest_12_dates |->
                        FuelByDate(fuel_records, latest_12_dates[i])]),
            SumSeq([i \in DOMAIN previous_12_dates |->
                        FuelByDate(fuel_records, previous_12_dates[i])]),
            IF has_latest
            THEN SumSeq([i \in DOMAIN latest_12_dates |->
                            ShareByDate(fuel_records, latest_12_dates[i])])
                 \div Len(latest_12_dates)
            ELSE 0,
            has_latest,
            IF has_latest THEN FuelByDate(fuel_records, latest_month_date) ELSE 0,
            IF has_latest
            THEN FuelByDate(fuel_records, ReplaceYearMinusOne(latest_month_date))
            ELSE 0,
            IF has_latest THEN ShareByDate(fuel_records, latest_month_date) ELSE 0)

\* ----------------------------------------------------------- load helpers
\* A table is the set of its rows, a row a record of its fields.
\* QuerySet.update_or_create(**key, defaults=defaults): the rows that match
\* the key are given the defaults; when none matches, a row of the key and
\* the defaults is inserted (`blank` has the values of the other fields).
Matches(r, key) == \A k \in DOMAIN key : r[k] = key[k]

Assigned(r, values) ==
    [f \in DOMAIN r |-> IF f \in DOMAIN values THEN values[f] ELSE r[f]]

update_or_create(table, key, defaults, blank) ==
    IF \E r \in table : Matches(r, key)
    THEN {IF Matches(r, key) THEN Assigned(r, defaults) ELSE r : r \in table}
    ELSE table \cup {Assigned(Assigned(blank, key), defaults)}

\* _load_country that leaves the rank of an existing row.
_load_country_keep(countries, code, country_name, metrics, latest_month) ==
    LET defaults ==
            [name |-> country_name,
             generation_latest_12_months |-> metrics.latest_total,
             generation_previous_12_months |-> metrics.previous_total,
             latest_month |-> latest_month,
             low_carbon_pct |-> metrics.low_carbon_pct]
        blank == [code |-> "", name |-> "", summary |-> "",
                  electricity_rank |-> 0,
                  generation_latest_12_months |-> 0,
                  generation_previous_12_months |-> 0,
                  latest_month |-> 0, low_carbon_pct |-> None]
    IN  update_or_create(countries, [code |-> code], defaults, blank)

\* _load_country: Country.objects.update_or_create(code=code, defaults=...)
_load_country(countries, code, country_name, metrics, latest_month) ==
    LET defaults ==
            [name |-> country_name,
             generation_latest_12_months |-> metrics.latest_total,
             generation_previous_12_months |-> metrics.previous_total,
             latest_month |-> latest_month,
             low_carbon_pct |-> metrics.low_carbon_pct,
             electricity_rank |-> 0]
        blank == [code |-> "", name |-> "", summary |-> "",
                  electricity_rank |-> 0,
                  generation_latest_12_months |-> 0,
                  generation_previous_12_months |-> 0,
                  latest_month |-> 0, low_carbon_pct |-> None]
    IN  update_or_create(countries, [code |-> code], defaults, blank)

\* The Fuel half of _load_fuel_data.
LoadFuel(fuels, fuel_type) ==
    LET blank == [type |-> "", rank |-> 0, summary |-> "",
                  generation_latest_12_months |-> 0,
                  generation_all_time |-> 0]
    IN  update_or_create(fuels, [type |-> fuel_type], [rank |-> 0], blank)

\* The CountryFuel half of _load_fuel_data.
LoadCountryFuel(country_fuels, code, fuel_type, metrics, latest_month) ==
    LET defaults ==
            [share |-> metrics.avg_share,
             latest_month |-> latest_month,
             generation_latest_12_months |-> metrics.latest_total,
             generation_previous_12_months |-> metrics.previous_total,
             month_yoy_growth |-> metrics.month_yoy_growth,
             annual_yoy_growth |-> metrics.annual_yoy_growth,
             generation_latest_month |-> metrics.latest_month_gen,
             share_latest_month |-> metrics.latest_month_share]
        blank == [country |-> "", fuel |-> "", share |-> 0,
                  latest_month |-> 0,
                  generation_latest_12_months |-> 0,
                  generation_previous_12_months |-> 0,
                  month_yoy_growth |-> None, annual_yoy_growth |-> None,
                  generation_latest_month |-> 0, share_latest_month |-> 0]
    IN  update_or_create(country_fuels, [country |-> code, fuel |-> fuel_type],
                         defaults, blank)

RECURSIVE FuelLoop(_, _, _, _, _, _)
RECURSIVE FuelLoop_empty(_, _, _, _, _, _)
\* FuelLoop without the skip of the empty fuel type.
FuelLoop_empty(fuels, country_fuels, code, fuel_records, windows, todo) ==
    IF todo = {} THEN <<fuels, country_fuels>>
    ELSE LET fuel_type == CHOOSE f \in todo : TRUE
             fuel_metrics ==
                _transform_fuel_metrics(fuel_records[fuel_type],
                                        windows[1], windows[2])
             latest_month == windows[1][Len(windows[1])]
         IN  FuelLoop_empty(LoadFuel(fuels, fuel_type),
                            LoadCountryFuel(country_fuels, code, fuel_type,
                                            fuel_metrics, latest_month),
                            code, fuel_records, windows, todo \ {fuel_type})

\* The loop `for fuel_type in fuel_types` of handle, over the fuel types
\* `todo`: <<Fuel rows, CountryFuel rows>> after it.  fuel_records[f] is
\* the list the query records.filter(fuel_type=f) returns.
FuelLoop(fuels, country_fuels, code, fuel_records, windows, todo) ==
    IF todo = {} THEN <<fuels, country_fuels>>
    ELSE LET fuel_type == CHOOSE f \in todo : TRUE
             fuel_metrics ==
                _transform_fuel_metrics(fuel_records[fuel_type],
                                        windows[1], windows[2])
             latest_month == windows[1][Len(windows[1])]
         IN  IF fuel_type = ""
             THEN FuelLoop(fuels, country_fuels, code, fuel_records, windows,
                           todo \ {fuel_type})
             ELSE FuelLoop(LoadFuel(fuels, fuel_type),
                           LoadCountryFuel(country_fuels, code, fuel_type,
                                           fuel_metrics, latest_month),
                           code, fuel_records, windows, todo \ {fuel_type})

\* annual_fuel_totals[(year, fuel_type)] of _load_annual_data
AnnualFuelTotal(records, year, fuel_type) ==
    Generation({r \in records : Year(r.date) = year /\ r.fuel_type = fuel_type})

\* annual_country_totals[year] of _load_annual_data
AnnualCountryTotal(records, year) ==
    Generation({r \in records : Year(r.date) = year /\ ~r.is_aggregate_series})

\* YearMonths that counts the months of every year.
YearMonths_all(records, year) ==
    {Month(r.date) : r \in records}

\* year_months[year] of _load_annual_data
YearMonths(records, year) ==
    {Month(r.date) : r \in {q \in records : Year(q.date) = year}}

\* AnnualDefaults dividing by every total other than 0.
AnnualDefaults_nonzero(year_months, total_gen, gen, has_prev, prev_year_gen) ==
    [is_complete |-> (Cardinality(year_months) = 12),
     share |-> IF total_gen # 0 THEN RatioPct(gen, total_gen) ELSE 0,
     generation |-> gen,
     yoy_growth |-> IF has_prev /\ prev_year_gen # 0
                    THEN GrowthPct(gen, prev_year_gen) ELSE 0]

\* _load_annual_data, lines 315-345: the defaults written for (year, fuel_type)
AnnualDefaults(year_months, total_gen, gen, has_prev, prev_year_gen) ==
    [is_complete |-> (Cardinality(year_months) = 12),
     share |-> IF total_gen > 0 THEN RatioPct(gen, total_gen) ELSE 0,
     generation |-> gen,
     yoy_growth |-> IF has_prev /\ prev_year_gen > 0
                    THEN GrowthPct(gen, prev_year_gen) ELSE 0]

AnnualRow(records, year, fuel_type) ==
    AnnualDefaults(YearMonths(records, year),
                   AnnualCountryTotal(records, year),
                   AnnualFuelTotal(records, year, fuel_type),
                   \E r \in records : Year(r.date) = year - 1 /\ r.fuel_type = fuel_type,
                   AnnualFuelTotal(records, year - 1, fuel_type))

\* _load_annual_data, lines 323-346: CountryFuelYear.objects.update_or_create
LoadAnnualRow(country_fuel_years, code, records, year, fuel_type) ==
    LET blank == [country |-> "", fuel |-> "", year |-> 0,
                  is_complete |-> FALSE, share |-> 0, generation |-> 0,
                  yoy_growth |-> 0]
    IN  update_or_create(country_fuel_years,
            [country |-> code, fuel |-> fuel_type, year |-> year],
            AnnualRow(records, year, fuel_type), blank)

RECURSIVE AnnualLoop(_, _, _, _)
\* The loops `for year in years: for fuel_type in fuel_types` of
\* _load_annual_data over the pairs `todo`.
AnnualLoop(country_fuel_years, code, records, todo) ==
    IF todo = {} THEN country_fuel_years
    ELSE LET k == CHOOSE x \in todo : TRUE
         IN  AnnualLoop(
                LoadAnnualRow(country_fuel_years, code, records, k[1], k[2]),
                code, records, todo \ {k})

\* _load_annual_data that writes the rows of its country to an empty table.
_load_annual_data_rebuild(country_fuel_years, code, records) ==
    LET years == {Year(r.date) : r \in {q \in records : ~q.is_aggregate_series}}
        fuel_types == {r.fuel_type : r \in records} \ {""}
        present == {k \in years \X fuel_types :
                        \E r \in records :
                            Year(r.date) = k[1] /\ r.fuel_type = k[2]}
    IN  AnnualLoop({}, code, records, present)

\* _load_annual_data, lines 291-346
_load_annual_data(country_fuel_years, code, records) ==
    LET years == {Year(r.date) : r \in {q \in records : ~q.is_aggregate_series}}
        fuel_types == {r.fuel_type : r \in records} \ {""}
        present == {k \in years \X fuel_types :
                        \E r \in records :
                            Year(r.date) = k[1] /\ r.fuel_type = k[2]}
    IN  AnnualLoop(country_fuel_years, code, records, present)

\* ---------------------------------------------------------------- ranking
RECURSIVE DescOrders(_, _)
\* The lists an ORDER BY key DESC may return for the rows S: descending in
\* key[x], rows of equal key in any order (the query names no second key).
DescOrders(S, key) ==
    IF S = {} THEN {<<>>}
    ELSE LET top == {x \in S : \A y \in S : key[y] <= key[x]}
         IN  UNION {{<<x>> \o t : t \in DescOrders(S \ {x}, key)} : x \in top}

\* enumerate(order, start=1): the rank of x
RankIn(order, x) == CHOOSE i \in DOMAIN order : order[i] = x

\* RankCountryRows that counts the ranks from 0.
RankCountryRows_zero(countries, order) ==
    {[r EXCEPT !.electricity_rank = RankIn(order, r.code) - 1] : r \in countries}

\* First loop of _apply_rankings, for one result of the ORDER BY.
RankCountryRows(countries, order) ==
    {[r EXCEPT !.electricity_rank = RankIn(order, r.code)] : r \in countries}

\* FuelTotal counting the rows instead of adding them up.
FuelTotal_count(country_fuels, fuel_type) ==
    Cardinality({r \in country_fuels : r.fuel = fuel_type})

\* Sum("generation_latest_12_months") grouped by fuel__type
FuelTotal(country_fuels, fuel_type) ==
    LET of == {r \in country_fuels : r.fuel = fuel_type}
    IN  SumFn([r \in of |-> r.generation_latest_12_months], of)

\* Second loop of _apply_rankings, for one result of the ORDER BY.
RankFuelRows(fuels, country_fuels, order) ==
    {IF r.type \in Range(order)
     THEN [r EXCEPT !.rank = RankIn(order, r.type),
                    !.generation_latest_12_months = FuelTotal(country_fuels, r.type)]
     ELSE r : r \in fuels}

\* AllTimeFuelRows over the latest 24 months of every country only.
AllTimeFuelRows_windows(fuels, staging) ==
    {IF \E o \in staging : o.fuel_type = r.type
     THEN [r EXCEPT !.generation_all_time =
              LET of == {o \in staging :
                            /\ o.fuel_type = r.type
                            /\ Cardinality({q.date : q \in {x \in staging :
                                    /\ x.country_code = o.country_code
                                    /\ x.date > o.date}}) < 24}
              IN  SumFn([o \in of |-> o.generation_twh], of)]
     ELSE r : r \in fuels}

\* Third loop of _apply_rankings: Sum("generation_twh") grouped by fuel_type
AllTimeFuelRows(fuels, staging) ==
    {IF \E o \in staging : o.fuel_type = r.type
     THEN [r EXCEPT !.generation_all_time =
              LET of == {o \in staging : o.fuel_type = r.type}
              IN  SumFn([o \in of |-> o.generation_twh], of)]
     ELSE r : r \in fuels}

\* --------------------------------------------------------------- Ember API
\* A fetched record is
\*   [date, series, entity, is_aggregate_entity, is_aggregate_series,
\*    generation_twh, share_of_generation_pct], date = <<year, month, day>>.
\* A record without the key "date" has date = <<>>; generation_twh and
\* share_of_generation_pct are None where the key is missing or null.

\* _parse_date: the month of 'YYYY-MM-DD', the day replaced by 1
_parse_date(date_str) == Date(date_str[1], date_str[2])

\* r["date"] finds the key and strptime(date_str[:7], "%Y-%m") accepts it.
Parses(date_str) == Len(date_str) = 3 /\ date_str[2] \in 1..12

\* What row_date = _parse_date(r["date"]) raises for a date that does not parse.
ParseError(date_str) == IF date_str = <<>> THEN "KeyError" ELSE "ValueError"

\* r.get(key) or 0.0
OrZero(value) == IF value = None THEN 0 ELSE value[1]

\* The months the API has data of.
Months == Date(2022, 1)..Date(2025, 12)

\* n monthly records of one series from month `from` on; gen[d] is the
\* generation of month d.
SeriesRows(entity, from, n, series, agg, gen, share) ==
    [i \in 1..n |->
        [date |-> <<Year(from + i - 1), Month(from + i - 1), 1>>,
         series |-> series, entity |-> entity,
         is_aggregate_entity |-> FALSE, is_aggregate_series |-> agg,
         generation_twh |-> Some(gen[from + i - 1]),
         share_of_generation_pct |-> Some(share)]]

\* The members of the enumeration CountryCode that the model uses.
CountryCode == {"FRA", "DEU", "GBR"}

EntityName(code) ==
    CASE code = "FRA" -> "France"
      [] code = "DEU" -> "Germany"
      [] code = "GBR" -> "United Kingdom"
      [] OTHER -> ""

\* 24 months of one fuel: 1..12 over 2023, then 10 a month
\* (the staging rows of CountryFuelTransformTests.setUp).
NuclearRows(entity) ==
    SeriesRows(entity, Date(2023, 1), 24, "Nuclear", FALSE,
               [d \in Months |-> IF Year(d) = 2023 THEN Month(d) ELSE 10], 70 * Milli)

\* Four series over the months from..from+n-1; Gas is 0 before 2024, and
\* the country exports (negative net imports) before 2024.
MixRows(entity, from, n, imports, renewables) ==
    SeriesRows(entity, from, n, "Gas", FALSE,
               [d \in Months |-> IF Year(d) < 2024 THEN 0 ELSE 5], 50 * Milli)
    \o SeriesRows(entity, Max2(from, Date(2024, 1)),
                  n - (Max2(from, Date(2024, 1)) - from), "Wind", FALSE,
                  [d \in Months |-> 3], 30 * Milli)
    \o SeriesRows(entity, from, n, NET_IMPORTS, FALSE, [d \in Months |-> IF Year(d) < 2024 THEN 0 - imports ELSE imports], 0)
    \o SeriesRows(entity, from, n, "Renewables", TRUE,
                  [d \in Months |-> renewables], 30 * Milli)

\* client.fetch_country(code) at revision rev: "a" and "b" are the data of
\* the API at two points in time, "c" holds malformed records for FRA and DEU
\* and aggregate series only for GBR, "d" and "e" are short responses.
fetch_country(code, rev) ==
    LET e == EntityName(code)
    IN  CASE code = "FRA" /\ rev = "a" -> NuclearRows(e)
          [] code = "FRA" /\ rev = "b" ->
                NuclearRows(e)
                \o SeriesRows(e, Date(2025, 1), 1, "Nuclear", FALSE,
                              [d \in Months |-> 6], 60 * Milli)
                \o SeriesRows(e, Date(2025, 1), 1, "Gas", FALSE,
                              [d \in Months |-> 4], 40 * Milli)
          [] code = "DEU" /\ rev = "a" -> MixRows(e, Date(2024, 1), 11, 2, 3)
          [] code = "DEU" /\ rev = "b" -> MixRows(e, Date(2023, 12), 13, 4, 7)
          [] code = "GBR" /\ rev = "a" -> MixRows(e, Date(2024, 1), 11, 2, 3)
          [] code = "GBR" /\ rev = "b" ->
                SeriesRows(e, Date(2024, 12), 1, "Coal", FALSE,
                           [d \in Months |-> 10], 90 * Milli)
                \o SeriesRows(e, Date(2024, 12), 1, "", FALSE,
                              [d \in Months |-> 0 - 11], 10 * Milli)
          [] code = "FRA" /\ rev = "c" ->
                <<[date |-> <<2025, 2, 1>>, series |-> "Nuclear", entity |-> e,
                   is_aggregate_entity |-> FALSE, is_aggregate_series |-> FALSE,
                   generation_twh |-> None, share_of_generation_pct |-> None],
                  [date |-> <<2025, 13, 1>>, series |-> "Nuclear", entity |-> e,
                   is_aggregate_entity |-> FALSE, is_aggregate_series |-> FALSE,
                   generation_twh |-> Some(8), share_of_generation_pct |-> Some(80 * Milli)]>>
                \o SeriesRows(e, Date(2024, 12), 1, "Nuclear", FALSE,
                              [d \in Months |-> 7], 70 * Milli)
          [] code = "DEU" /\ rev = "c" ->
                SeriesRows(e, Date(2024, 11), 1, "Gas", FALSE,
                           [d \in Months |-> 6], 60 * Milli)
                \o <<[series |-> "Gas", entity |-> e, date |-> <<>>,
                      is_aggregate_entity |-> FALSE, is_aggregate_series |-> FALSE,
                      generation_twh |-> Some(9), share_of_generation_pct |-> None]>>
                \o SeriesRows(e, Date(2024, 12), 1, "Gas", FALSE,
                              [d \in Months |-> 9], 90 * Milli)
          [] code = "GBR" /\ rev = "c" ->
                SeriesRows(e, Date(2024, 12), 1, "Coal", TRUE,
                           [d \in Months |-> 12], 90 * Milli)
                \o SeriesRows(e, Date(2024, 12), 1, "", TRUE,
                              [d \in Months |-> 0 - 11], 10 * Milli)
                \o SeriesRows(e, Date(2025, 1), 1, "Renewables", TRUE,
                              [d \in Months |-> 2], 100 * Milli)
          [] code = "FRA" /\ rev = "d" ->
                SeriesRows(e, Date(2025, 1), 3, "Nuclear", FALSE,
                           [d \in Months |-> 10], 70 * Milli)
          [] code = "FRA" /\ rev = "e" ->
                SeriesRows(e, Date(2025, 2), 2, "Nuclear", FALSE,
                           [d \in Months |-> 11], 70 * Milli)
          [] code = "DEU" /\ rev = "e" ->
                SeriesRows(e, Date(2025, 2), 1, "Gas", FALSE,
                           [d \in Months |-> 4], 40 * Milli)
                \o SeriesRows(e, Date(2025, 2), 1, "Wind", FALSE,
                              [d \in Months |-> 6], 60 * Milli)
          [] OTHER -> <<>>

\* ------------------------------------------------------------------- state
VARIABLES
    MonthlyGenerationData,  \* staging table
    Country,                \* aggregate tables
    Fuel,
    CountryFuel,
    CountryFuelYear,
    pc,                     \* where each transform_and_load process stands
    requested,              \* options["country"] of each process
    country_codes,          \* the resolved list of each process
    idx,                    \* position of the loop over country_codes
    rank_passes,            \* calls of _apply_rankings in the current run
    runs,                   \* transform_and_load invocations so far
    extracts,               \* extract_ember invocations so far
    last_run,               \* the run completed last: its request, the aggregate
                            \* tables it left, whether staging is as it read it
    prev_run,               \* last_run as it was when the last run completed
    win_records,            \* an argument of _get_date_windows
    win_result,             \* ... and what it returned
    extract_status,         \* how the last extract_ember ended: "ok" or what it raised
    extract_log,            \* what it wrote to stdout about every country it reached
    extract_args,           \* its --country option and the environment it ran in
    load_status,            \* how the last load_data ended: "ok" or what it raised
    load_locals,            \* the local variables of the load_data process
    upsert_pc,              \* where each extract_ember process stands that runs
                            \* its update_or_create calls beside another
    upsert_codes,           \* the countries it has not finished
    upsert_records,         \* the fetched records it has not staged
    upsert_found,           \* the ids of the rows its last lookup returned
    locals                  \* the local variables of each transform_and_load
                            \* process that runs statement by statement

vars == <<MonthlyGenerationData, Country, Fuel, CountryFuel, CountryFuelYear,
          pc, requested, country_codes, idx, rank_passes, runs, extracts,
          last_run, prev_run, win_records, win_result, extract_status, extract_log,
          extract_args, load_status, load_locals, upsert_pc, upsert_codes, upsert_records, upsert_found,
          locals>>

\* The variables of the extract_ember processes that run side by side.
upsert_vars == <<upsert_pc, upsert_codes, upsert_records, upsert_found>>

\* The outputs of extract_ember, and load_data's output and local variables.
ext_vars == <<extract_status, extract_log, extract_args, load_status, load_locals>>

\* The variables of the runs of _get_date_windows on its own.
win_vars == <<win_records, win_result>>

\* The variables of the commands.
etl_vars == <<MonthlyGenerationData, Country, Fuel, CountryFuel, CountryFuelYear,
              pc, requested, country_codes, idx, rank_passes, runs, extracts,
              last_run, prev_run, extract_status, extract_log, extract_args,
              load_status, load_locals,
              upsert_pc, upsert_codes, upsert_records, upsert_found, locals>>

tables == <<Country, Fuel, CountryFuel, CountryFuelYear>>

\* The processes that may run transform_and_load.
Procs == {"p1", "p2"}

\* --country arguments of transform_and_load (<<>>: the option is absent)
TransformRequests ==
    {<<>>, <<"Fra">>, <<"XXX", "deu">>}

\* The invocations of extract_ember: <<--country arguments, API revision>>
ExtractInputs ==
    {<< <<>>, "a" >>, << <<>>, "b" >>, << <<"Gbr", "DEU">>, "b" >>, << <<"GBR">>, "c" >>}

\* list(CountryCode)
AllCountryCodes == <<"FRA", "DEU", "GBR">>

\* The local variables of handle and of _apply_rankings before a loop
\* iteration: `at` is the statement that comes next, `windows` the pair
\* latest_12, previous_12, `records` the rows the queryset `records` cached,
\* `pairs` the (year, fuel_type) that _load_annual_data has to visit,
\* `countries`, `fuel_totals` and `all_time_totals` the results of the
\* queries of _apply_rankings and `rank` the position of its loop in them.
BlankLocals ==
    [at |-> "begin", windows |-> << <<>>, <<>> >>, country_name |-> "",
     records |-> {}, fuel_types |-> <<>>, fuel_metrics |-> None,
     pairs |-> <<>>, countries |-> <<>>, fuel_totals |-> <<>>,
     all_time_totals |-> <<>>, rank |-> 0]

\* The local variables of handle of load_data before the command: `at` is
\* the statement that comes next, `rev` the revision of the API and `down`
\* the countries whose request fails while it runs, `strict` whether the
\* table CountryFuel requires the columns that the command does not name,
\* `codes` the countries it has not finished, `todo` the records of
\* raw_records it has not staged, `found` the ids of the rows that the last
\* lookup returned, `fuel_types` the fuel types of the country that are
\* left, in the order in which fuel_types_in_country iterates, `countries`
\* and `fuel_totals` the results of the queries of the ranking and `rank`
\* the position of its loop in them.
BlankLoad ==
    [at |-> "idle", rev |-> "", down |-> {}, strict |-> FALSE, codes |-> <<>>,
     raw_records |-> <<>>, todo |-> <<>>, found |-> {},
     windows |-> << <<>>, <<>> >>, fuel_types |-> <<>>,
     countries |-> <<>>, fuel_totals |-> <<>>, rank |-> 0]

InitCommands ==
    /\ MonthlyGenerationData = {}
    /\ Country = {}
    /\ Fuel = {}
    /\ CountryFuel = {}
    /\ CountryFuelYear = {}
    /\ pc = [p \in Procs |-> "idle"]
    /\ requested = [p \in Procs |-> <<>>]
    /\ country_codes = [p \in Procs |-> <<>>]
    /\ idx = [p \in Procs |-> 1]
    /\ rank_passes = [p \in Procs |-> 0]
    /\ runs = 0
    /\ extracts = 0
    /\ last_run = None
    /\ prev_run = None
    /\ extract_status = "none"
    /\ extract_log = <<>>
    /\ extract_args = None
    /\ load_status = "none"
    /\ load_locals = BlankLoad
    /\ upsert_pc = [p \in Procs |-> "idle"]
    /\ upsert_codes = [p \in Procs |-> <<>>]
    /\ upsert_records = [p \in Procs |-> <<>>]
    /\ upsert_found = [p \in Procs |-> {}]
    /\ locals = [p \in Procs |-> BlankLocals]

Init ==
    /\ InitCommands
    /\ win_records = {}
    /\ win_result = None

\* No transform_and_load process is between its start and its end.
Quiet == \A p \in Procs : pc[p] \in {"idle", "done"}

\* ----------------------------------------------------------- extract_ember
\* The key MonthlyGenerationData.objects.update_or_create looks a record up by.
RecordKey(r) == <<_parse_date(r.date), r.series>>

\* update_or_create's defaults of a fetched record r, written to `row`
StagedRow(row, r) ==
    [row EXCEPT !.country = r.entity,
                !.is_aggregate_entity = r.is_aggregate_entity,
                !.is_aggregate_series = r.is_aggregate_series,
                !.generation_twh = OrZero(r.generation_twh),
                !.share_of_generation_pct = OrZero(r.share_of_generation_pct)]

\* The position of the first of the keys that more than one row of `code`
\* has, where the get() of update_or_create raises MultipleObjectsReturned;
\* 0 where no key has two rows.
FirstAmbiguous(staging, code, keys) ==
    LET twice == {i \in DOMAIN keys :
                    Cardinality({row \in staging :
                                    /\ row.country_code = code
                                    /\ <<row.date, row.fuel_type>> = keys[i]}) > 1}
    IN  IF twice = {} THEN 0 ELSE CHOOSE i \in twice : \A j \in twice : i <= j

\* The staging table after the loop over raw_records; keys[i] is the key
\* of record i, `staged` are the keys of the rows of `code`.  The loop ends
\* before the first record whose key two rows have.  Every row whose key
\* occurs in the records before ends with the defaults of the last of them
\* that has the key; a key no row matched is inserted at its first record,
\* with the next id.
UpsertedRows(staging, code, raw_records, keys, staged) ==
    LET stop == FirstAmbiguous(staging, code, keys)
        n == IF stop = 0 THEN Len(raw_records) ELSE stop - 1
        winner(k) == raw_records[CHOOSE i \in 1..n :
                                    keys[i] = k /\ \A j \in (i + 1)..n : keys[j] # k]
        creating == {i \in 1..n : /\ keys[i] \notin staged
                                  /\ \A j \in 1..(i - 1) : keys[j] # keys[i]}
        blank(i) ==
            [id |-> Cardinality(staging) + Cardinality({j \in creating : j <= i}),
             country |-> "", country_code |-> code,
             is_aggregate_entity |-> FALSE,
             date |-> keys[i][1], fuel_type |-> keys[i][2],
             is_aggregate_series |-> FALSE,
             generation_twh |-> 0, share_of_generation_pct |-> 0]
    IN  {IF /\ row.country_code = code
            /\ <<row.date, row.fuel_type>> \in {keys[i] : i \in 1..n}
         THEN StagedRow(row, winner(<<row.date, row.fuel_type>>))
         ELSE row : row \in staging}
        \cup {StagedRow(blank(i), winner(keys[i])) : i \in creating}

\* The keys of the records of raw_records, all of which parse.
RecordKeys(raw_records) ==
    <<>> \o [i \in 1..Len(raw_records) |-> RecordKey(raw_records[i])]

\* for r in raw_records: MonthlyGenerationData.objects.update_or_create(...)
StageRecords(staging, code, raw_records) ==
    UpsertedRows(staging, code, raw_records, RecordKeys(raw_records),
        {<<row.date, row.fuel_type>> :
            row \in {q \in staging : q.country_code = code}})

\* The position of the first record of raw_records at which
\* _parse_date(r["date"]) raises; 0 where it raises at none.
FirstUnparsed(raw_records) ==
    LET bad == {i \in DOMAIN raw_records : ~Parses(raw_records[i].date)}
    IN  IF bad = {} THEN 0 ELSE CHOOSE i \in bad : \A j \in bad : i <= j

\* The loop over raw_records of one country, lines 103-123: the staging
\* table it leaves, and "staged" or the exception that left the loop, which
\* _parse_date raises at record `bad` unless the lookup of an earlier record
\* finds two rows.
StagedCountry(staging, code, raw_records, bad) ==
    LET parsed == IF bad = 0 THEN raw_records
                  ELSE SubSeq(raw_records, 1, bad - 1)
    IN  [staging |-> StageRecords(staging, code, parsed),
         outcome |->
            IF FirstAmbiguous(staging, code, RecordKeys(parsed)) # 0
            THEN "MultipleObjectsReturned"
            ELSE IF bad = 0 THEN "staged"
            ELSE ParseError(raw_records[bad].date)]

RECURSIVE ExtractLoop(_, _, _, _, _, _)
\* for country_code in country_codes, from position i on: the staging table
\* and the log it has so far, and how the command ends.  `down` are the
\* countries whose request fails.
ExtractLoop(staging, log, codes, rev, down, i) ==
    IF i > Len(codes)
    THEN [staging |-> staging, log |-> log, status |-> "ok"]
    ELSE IF codes[i] \in down
    THEN ExtractLoop(staging, Append(log, <<codes[i], "error">>), codes, rev, down, i + 1)
    ELSE IF fetch_country(codes[i], rev) = <<>>
    THEN ExtractLoop(staging, Append(log, <<codes[i], "empty">>), codes, rev, down, i + 1)
    ELSE \* an exception of the loop over raw_records leaves handle
         LET country == StagedCountry(staging, codes[i], fetch_country(codes[i], rev),
                                      FirstUnparsed(fetch_country(codes[i], rev)))
         IN  IF country.outcome = "staged"
             THEN ExtractLoop(country.staging, Append(log, <<codes[i], "staged">>),
                              codes, rev, down, i + 1)
             ELSE [staging |-> country.staging,
                   log |-> Append(log, <<codes[i], country.outcome>>),
                   status |-> country.outcome]

\* EmberApiClient.__init__: raises ValueError unless EMBER_API_KEY is set
EmberApiClient(api_key) == api_key # ""

\* The codes handle resolves --country to, before CountryCode(...) checks them
RequestedCodes(req) ==
    IF req # <<>> THEN [i \in DOMAIN req |-> Upper(req[i])] ELSE AllCountryCodes

\* Extracted, were a code checked only as the loop reaches it: the known
\* countries are staged before the command fails.
Extracted_late(staging, req, rev, down, api_key) ==
    IF Range(RequestedCodes(req)) \subseteq CountryCode /\ EmberApiClient(api_key)
    THEN ExtractLoop(staging, <<>>, RequestedCodes(req), rev, down, 1)
    ELSE [ExtractLoop(staging, <<>>,
                      SelectSeq(RequestedCodes(req), LAMBDA c : c \in CountryCode),
                      rev, down, 1) EXCEPT !.status = "CommandError"]

\* What handle of extract_ember leaves for --country req, with the API at
\* revision rev, the requests of the countries `down` failing.
Extracted(staging, req, rev, down, api_key) ==
    IF Range(RequestedCodes(req)) \subseteq CountryCode /\ EmberApiClient(api_key)
    THEN ExtractLoop(staging, <<>>, RequestedCodes(req), rev, down, 1)
    ELSE \* CommandError, lines 68-69 and 75-76
         [staging |-> staging, log |-> <<>>, status |-> "CommandError"]

\* ExtractEmber, were it to load the Country table as load_data does: it
\* resets the rows of the countries it was asked for.
ExtractEmber_load(req, rev, down, api_key) ==
    /\ extracts < MaxExtracts
    /\ \E out \in {Extracted(MonthlyGenerationData, req, rev, down, api_key)} :
          /\ MonthlyGenerationData' = out.staging
          /\ extract_log' = out.log
          /\ extract_status' = out.status
    /\ extract_args' = Some([country |-> req, rev |-> rev, down |-> down,
                             api_key |-> api_key])
    /\ extracts' = extracts + 1
    /\ last_run' = IF last_run = None THEN None
                   ELSE Some([last_run[1] EXCEPT !.fresh = FALSE])
    /\ Country' = {[r EXCEPT !.electricity_rank = 0] : r \in Country}
    /\ UNCHANGED <<Fuel, CountryFuel, CountryFuelYear, pc, requested,
                   country_codes, idx, rank_passes, runs, prev_run, win_vars, upsert_vars, locals,
                   load_status, load_locals>>

\* extract_ember.Command.handle
ExtractEmber(req, rev, down, api_key) ==
    /\ extracts < MaxExtracts
    /\ \E out \in {Extracted(MonthlyGenerationData, req, rev, down, api_key)} :
          /\ MonthlyGenerationData' = out.staging
          /\ extract_log' = out.log
          /\ extract_status' = out.status
    /\ extract_args' = Some([country |-> req, rev |-> rev, down |-> down,
                             api_key |-> api_key])
    /\ extracts' = extracts + 1
    /\ last_run' = IF last_run = None THEN None
                   ELSE Some([last_run[1] EXCEPT !.fresh = FALSE])
    /\ UNCHANGED <<Country, Fuel, CountryFuel, CountryFuelYear, pc, requested,
                   country_codes, idx, rank_passes, runs, prev_run, win_vars, upsert_vars, locals,
                   load_status, load_locals>>

\* ------------------------------------------------------ transform_and_load
\* list(values_list("country_code", flat=True).distinct()): the distinct
\* codes of the staging table, in an order the query does not fix.
StagedCodeLists(staging) ==
    LET codes == {r.country_code : r \in staging}
    IN  DescOrders(codes, [c \in codes |-> 0])

\* handle, lines 44-59: resolve the list of country codes
Start(p, req) ==
    /\ pc[p] \in {"idle", "done"}
    /\ runs < MaxRuns
    /\ \E codes \in IF req # <<>>
                    THEN {[i \in DOMAIN req |-> Upper(req[i])]}
                    ELSE StagedCodeLists(MonthlyGenerationData) :
          /\ country_codes' = [country_codes EXCEPT ![p] = codes]
          /\ pc' = [pc EXCEPT ![p] = IF codes = <<>> THEN "rank_countries"
                                     ELSE "countries"]
    /\ requested' = [requested EXCEPT ![p] = req]
    /\ idx' = [idx EXCEPT ![p] = 1]
    /\ rank_passes' = [rank_passes EXCEPT ![p] = 0]
    /\ runs' = runs + 1
    /\ UNCHANGED <<MonthlyGenerationData, Country, Fuel, CountryFuel,
                   CountryFuelYear, extracts, last_run, prev_run, win_vars, ext_vars, upsert_vars, locals>>

\* The aggregate tables after lines 76-100 of handle for `code`, whose
\* staging rows are `records` and whose windows are `windows`; `first` is
\* records.first(), fuel_records[f] the list of records.filter(fuel_type=f).
LoadedTables(countries, fuels, country_fuels, country_fuel_years, code, first, records, fuel_records, windows) ==
    LET latest_month == windows[1][Len(windows[1])]
        country_metrics == _transform_country_metrics(records, windows[1], windows[2])
        fuel_types == {r.fuel_type : r \in records}
        loaded == FuelLoop(fuels, country_fuels, code, fuel_records, windows, fuel_types)
    IN  <<_load_country(countries, code, first.country, country_metrics, latest_month),
          loaded[1], loaded[2],
          _load_annual_data(country_fuel_years, code, records)>>

\* The aggregate tables after the body of the loop of handle (lines 61-100)
\* for `code`, whose staging rows `records` are not empty.
ProcessedTables(countries, fuels, country_fuels, country_fuel_years, code, first, records, fuel_records) ==
    LoadedTables(countries, fuels, country_fuels, country_fuel_years,
                 code, first, records, fuel_records, _get_date_windows(records))

\* The staging rows of one country: objects.filter(country_code=code)
RecordsOf(staging, code) == {r \in staging : r.country_code = code}

\* The rows records.first() may return: order_by("date") names no second key.
FirstRecords(records) == {r \in records : \A q \in records : r.date <= q.date}

RECURSIVE DateOrders(_, _)
\* The lists an ORDER BY date may return for `rows`, whose distinct dates
\* are `dates` in ascending order: rows of one date come in any order.
DateOrders(rows, dates) ==
    IF dates = <<>> THEN {<<>>}
    ELSE LET at == {r \in rows : r.date = Head(dates)}
         IN  {h \o t : h \in DescOrders(at, [r \in at |-> 0]),
                       t \in DateOrders(rows, Tail(dates))}

\* The lists the query records.filter(fuel_type=fuel_type) may return.
FuelRecords(records, fuel_type) ==
    LET rows == {r \in records : r.fuel_type = fuel_type}
    IN  DateOrders(rows, Sorted({r.date : r \in rows}))

RECURSIVE FuelRecordLists(_, _)
\* The results the queries of the fuel types `todo` may have together:
\* functions from a fuel type to the list of its rows.
FuelRecordLists(records, todo) ==
    IF todo = {} THEN {<<>>}
    ELSE LET fuel_type == CHOOSE f \in todo : TRUE
         IN  {(fuel_type :> l) @@ rest :
                 l \in FuelRecords(records, fuel_type),
                 rest \in FuelRecordLists(records, todo \ {fuel_type})}

\* handle, lines 61-100, for the country `code` with staging rows `records`
ProcessRecords(code, records) ==
    IF records = {}
    THEN UNCHANGED <<Country, Fuel, CountryFuel, CountryFuelYear>>
    ELSE \E first \in FirstRecords(records) :
         \E fuel_records \in FuelRecordLists(records, {r.fuel_type : r \in records}) :
            LET t == ProcessedTables(Country, Fuel, CountryFuel,
                                     CountryFuelYear, code, first, records,
                                     fuel_records)
            IN  /\ Country' = t[1]
                /\ Fuel' = t[2]
                /\ CountryFuel' = t[3]
                /\ CountryFuelYear' = t[4]

\* handle, lines 61-100: one iteration of the loop over country_codes
ProcessCountry(p) ==
    /\ pc[p] = "countries"
    /\ ProcessRecords(country_codes[p][idx[p]],
                      RecordsOf(MonthlyGenerationData, country_codes[p][idx[p]]))
    /\ idx' = [idx EXCEPT ![p] = idx[p] + 1]
    /\ pc' = [pc EXCEPT ![p] = IF idx[p] = Len(country_codes[p])
                               THEN "rank_countries" ELSE "countries"]
    /\ UNCHANGED <<MonthlyGenerationData, requested, country_codes, rank_passes,
                   runs, extracts, last_run, prev_run, win_vars, ext_vars, upsert_vars, locals>>

\* _apply_rankings, lines 262-266
RankCountries(p) ==
    /\ pc[p] = "rank_countries"
    /\ LET codes == {r.code : r \in Country}
           key == [c \in codes |->
                     (CHOOSE r \in Country : r.code = c).generation_latest_12_months]
       IN  \E order \in DescOrders(codes, key) :
              Country' = RankCountryRows(Country, order)
    /\ rank_passes' = [rank_passes EXCEPT ![p] = rank_passes[p] + 1]
    /\ pc' = [pc EXCEPT ![p] = "rank_fuels"]
    /\ UNCHANGED <<MonthlyGenerationData, Fuel, CountryFuel, CountryFuelYear,
                   requested, country_codes, idx, runs, extracts, last_run,
                   prev_run, win_vars, ext_vars, upsert_vars, locals>>

\* _apply_rankings, lines 268-288, and the end of handle
RankFuels(p) ==
    /\ pc[p] = "rank_fuels"
    /\ LET types == {r.fuel : r \in CountryFuel}
           key == [f \in types |-> FuelTotal(CountryFuel, f)]
       IN  \E order \in DescOrders(types, key) :
              Fuel' = AllTimeFuelRows(RankFuelRows(Fuel, CountryFuel, order),
                                      MonthlyGenerationData)
    /\ pc' = [pc EXCEPT ![p] = "done"]
    /\ last_run' = Some([requested |-> requested[p], fresh |-> TRUE,
                         tables |-> <<Country, Fuel', CountryFuel, CountryFuelYear>>])
    /\ prev_run' = last_run
    /\ UNCHANGED <<MonthlyGenerationData, Country, CountryFuel, CountryFuelYear,
                   requested, country_codes, idx, rank_passes, runs, extracts,
                   win_vars, ext_vars, upsert_vars, locals>>

\* ---------------------------------------------------------- specifications
\* The commands run one after the other (the pipeline is a batch job): a
\* command starts when no other is between its start and its end.
Next ==
    \/ \E in \in ExtractInputs : Quiet /\ ExtractEmber(in[1], in[2], {}, "key")
    \/ \E req \in TransformRequests : Quiet /\ Start("p1", req)
    \/ ProcessCountry("p1")
    \/ RankCountries("p1")
    \/ RankFuels("p1")

Spec == Init /\ [][Next]_vars

\* --------------------------- transform_and_load, statement by statement
\* Beside another process, a run is a sequence of queries and writes, each
\* of them a step; what a query returned is kept in `locals`.  An
\* update_or_create of a table with a unique key is one step: the database
\* rejects the INSERT of a key that a row has, and update_or_create then
\* updates that row.

\* The variables that a query of handle or of _apply_rankings leaves alone.
query_frame ==
    <<MonthlyGenerationData, Country, Fuel, CountryFuel, CountryFuelYear,
      requested, country_codes, runs, extracts, last_run, prev_run,
      win_vars, ext_vars, upsert_vars>>

\* The variables that a write to the aggregate tables leaves alone.
write_frame ==
    <<MonthlyGenerationData, requested, country_codes, rank_passes, runs,
      extracts, win_vars, ext_vars, upsert_vars>>

\* The country of the loop iteration that process p is in.
CodeOf(p) == country_codes[p][idx[p]]

\* `continue`, or the end of the body of the loop over country_codes
NextCountry(p) ==
    /\ idx' = [idx EXCEPT ![p] = idx[p] + 1]
    /\ pc' = [pc EXCEPT ![p] = IF idx[p] = Len(country_codes[p])
                               THEN "rank_countries" ELSE "countries"]
    /\ locals' = [locals EXCEPT ![p] = BlankLocals]

\* handle, lines 67-69: records.exists()
RecordsExist(p) ==
    /\ pc[p] = "countries"
    /\ locals[p].at = "begin"
    /\ IF RecordsOf(MonthlyGenerationData, CodeOf(p)) = {}
       THEN NextCountry(p)
       ELSE /\ locals' = [locals EXCEPT ![p].at = "dates"]
            /\ UNCHANGED <<pc, idx>>
    /\ UNCHANGED <<query_frame, rank_passes>>

\* handle, lines 72-75: the query of _get_date_windows (line 116)
QueryDates(p) ==
    /\ pc[p] = "countries"
    /\ locals[p].at = "dates"
    /\ LET windows == _get_date_windows(RecordsOf(MonthlyGenerationData, CodeOf(p)))
       IN  IF windows[1] = <<>>
           THEN NextCountry(p)
           ELSE /\ locals' = [locals EXCEPT ![p].at = "first",
                                            ![p].windows = windows]
                /\ UNCHANGED <<pc, idx>>
    /\ UNCHANGED <<query_frame, rank_passes>>

\* handle, line 77: records.first().country
QueryFirst(p) ==
    /\ pc[p] = "countries"
    /\ locals[p].at = "first"
    /\ \E first \in FirstRecords(RecordsOf(MonthlyGenerationData, CodeOf(p))) :
          locals' = [locals EXCEPT ![p].at = "records",
                                   ![p].country_name = first.country]
    /\ UNCHANGED <<query_frame, rank_passes, pc, idx>>

\* _transform_country_metrics, line 137: `for r in records` runs the query
\* of `records`, which keeps the rows for the loops that follow
QueryRecords(p) ==
    /\ pc[p] = "countries"
    /\ locals[p].at = "records"
    /\ locals' = [locals EXCEPT
                    ![p].at = "country",
                    ![p].records = RecordsOf(MonthlyGenerationData, CodeOf(p))]
    /\ UNCHANGED <<query_frame, rank_passes, pc, idx>>

\* handle, lines 79-82: the metrics of the country, and _load_country
LoadCountry(p) ==
    /\ pc[p] = "countries"
    /\ locals[p].at = "country"
    /\ LET windows == locals[p].windows
       IN  Country' = _load_country(Country, CodeOf(p), locals[p].country_name,
                         _transform_country_metrics(locals[p].records,
                                                    windows[1], windows[2]),
                         windows[1][Len(windows[1])])
    /\ locals' = [locals EXCEPT ![p].at = "fuel_types"]
    /\ UNCHANGED <<write_frame, Fuel, CountryFuel, CountryFuelYear, pc, idx,
                   last_run, prev_run>>

\* The lists records.values_list("fuel_type", flat=True).distinct() may
\* return: the query selects the column of the ORDER BY too, so that a fuel
\* type comes once for every month it has a row of.
FuelTypeLists(records) ==
    LET found == {[date |-> r.date, fuel_type |-> r.fuel_type] : r \in records}
    IN  {[i \in DOMAIN o |-> o[i].fuel_type] :
            o \in DateOrders(found, Sorted({r.date : r \in found}))}

\* handle, lines 85-87: the query of fuel_types
QueryFuelTypes(p) ==
    /\ pc[p] = "countries"
    /\ locals[p].at = "fuel_types"
    /\ \E fuel_types \in FuelTypeLists(RecordsOf(MonthlyGenerationData, CodeOf(p))) :
          locals' = [locals EXCEPT ![p].at = "fuel_records",
                                   ![p].fuel_types = fuel_types]
    /\ UNCHANGED <<query_frame, rank_passes, pc, idx>>

RECURSIVE AnnualPairs(_, _, _)
\* The (year, fuel_type) that the loops of _load_annual_data visit, for the
\* sorted list `years` and the order in which the set fuel_types iterates.
AnnualPairs(records, years, fuel_types) ==
    IF years = <<>> THEN <<>>
    ELSE LET present(f) == \E r \in records :
                              Year(r.date) = Head(years) /\ r.fuel_type = f
             of == SelectSeq(fuel_types, present)
         IN  [i \in DOMAIN of |-> <<Head(years), of[i]>>]
             \o AnnualPairs(records, Tail(years), fuel_types)

\* The lists of pairs that _load_annual_data may visit: a set iterates in
\* an order that the language does not fix.
AnnualPairLists(records) ==
    LET years == {Year(r.date) : r \in {q \in records : ~q.is_aggregate_series}}
        fuel_types == {r.fuel_type : r \in records} \ {""}
    IN  {AnnualPairs(records, Sorted(years), o) :
            o \in DescOrders(fuel_types, [f \in fuel_types |-> 0])}

\* handle, lines 87-94: the next fuel type, the query of its fuel_records and
\* _transform_fuel_metrics; after the last fuel type, lines 300-312 of
\* _load_annual_data, which reads the rows that `records` kept
QueryFuelRecords(p) ==
    /\ pc[p] = "countries"
    /\ locals[p].at = "fuel_records"
    /\ IF locals[p].fuel_types = <<>>
       THEN \E pairs \in AnnualPairLists(locals[p].records) :
               IF pairs = <<>>
               THEN NextCountry(p)
               ELSE /\ locals' = [locals EXCEPT ![p].at = "annual",
                                                ![p].pairs = pairs]
                    /\ UNCHANGED <<pc, idx>>
       ELSE IF Head(locals[p].fuel_types) = ""
       THEN /\ locals' = [locals EXCEPT
                            ![p].fuel_types = Tail(locals[p].fuel_types)]
            /\ UNCHANGED <<pc, idx>>
       ELSE \E fuel_records \in
                  FuelRecords(RecordsOf(MonthlyGenerationData, CodeOf(p)),
                              Head(locals[p].fuel_types)) :
               /\ locals' = [locals EXCEPT
                               ![p].at = "fuel",
                               ![p].fuel_metrics =
                                   Some(_transform_fuel_metrics(fuel_records,
                                            locals[p].windows[1],
                                            locals[p].windows[2]))]
               /\ UNCHANGED <<pc, idx>>
    /\ UNCHANGED <<query_frame, rank_passes>>

\* _load_fuel_data, lines 236-239: Fuel.objects.update_or_create
LoadFuelRow(p) ==
    /\ pc[p] = "countries"
    /\ locals[p].at = "fuel"
    /\ Fuel' = LoadFuel(Fuel, Head(locals[p].fuel_types))
    /\ locals' = [locals EXCEPT ![p].at = "country_fuel"]
    /\ UNCHANGED <<write_frame, Country, CountryFuel, CountryFuelYear, pc, idx,
                   last_run, prev_run>>

\* _load_fuel_data, lines 241-254: CountryFuel.objects.update_or_create
LoadCountryFuelRow(p) ==
    /\ pc[p] = "countries"
    /\ locals[p].at = "country_fuel"
    /\ CountryFuel' =
          LoadCountryFuel(CountryFuel, CodeOf(p), Head(locals[p].fuel_types),
                          locals[p].fuel_metrics[1],
                          locals[p].windows[1][Len(locals[p].windows[1])])
    /\ locals' = [locals EXCEPT ![p].at = "fuel_records",
                                ![p].fuel_types = Tail(locals[p].fuel_types),
                                ![p].fuel_metrics = None]
    /\ UNCHANGED <<write_frame, Country, Fuel, CountryFuelYear, pc, idx,
                   last_run, prev_run>>

\* _load_annual_data, lines 314-346: one pass of the inner loop that reaches
\* the update_or_create; Fuel.objects.get finds the row that the loop over
\* the fuel types wrote, which no statement deletes
LoadAnnualRowOf(p) ==
    /\ pc[p] = "countries"
    /\ locals[p].at = "annual"
    /\ LET k == Head(locals[p].pairs)
       IN  CountryFuelYear' =
              LoadAnnualRow(CountryFuelYear, CodeOf(p), locals[p].records,
                            k[1], k[2])
    /\ IF Tail(locals[p].pairs) = <<>>
       THEN NextCountry(p)
       ELSE /\ locals' = [locals EXCEPT ![p].pairs = Tail(locals[p].pairs)]
            /\ UNCHANGED <<pc, idx>>
    /\ UNCHANGED <<write_frame, Country, Fuel, CountryFuel, last_run, prev_run>>

\* _apply_rankings, lines 263-264: the query of `countries`
SelectCountries(p) ==
    /\ pc[p] = "rank_countries"
    /\ locals[p].at = "begin"
    /\ LET codes == {r.code : r \in Country}
           key == [c \in codes |->
                     (CHOOSE r \in Country : r.code = c).generation_latest_12_months]
       IN  \E order \in DescOrders(codes, key) :
              IF order = <<>>
              THEN /\ pc' = [pc EXCEPT ![p] = "rank_fuels"]
                   /\ UNCHANGED locals
              ELSE /\ locals' = [locals EXCEPT ![p].at = "save",
                                               ![p].countries = order,
                                               ![p].rank = 1]
                   /\ UNCHANGED pc
    /\ rank_passes' = [rank_passes EXCEPT ![p] = rank_passes[p] + 1]
    /\ UNCHANGED <<query_frame, idx>>

\* _apply_rankings, lines 265-266: country.save(update_fields=["electricity_rank"])
SaveCountryRank(p) ==
    /\ pc[p] = "rank_countries"
    /\ locals[p].at = "save"
    /\ LET country == {r \in Country :
                          r.code = locals[p].countries[locals[p].rank]}
       IN  Country' = (Country \ country)
                         \cup RankCountryRows(country, locals[p].countries)
    /\ IF locals[p].rank = Len(locals[p].countries)
       THEN /\ pc' = [pc EXCEPT ![p] = "rank_fuels"]
            /\ locals' = [locals EXCEPT ![p] = BlankLocals]
       ELSE /\ locals' = [locals EXCEPT ![p].rank = locals[p].rank + 1]
            /\ UNCHANGED pc
    /\ UNCHANGED <<write_frame, Fuel, CountryFuel, CountryFuelYear, idx,
                   last_run, prev_run>>

\* _apply_rankings, lines 269-275: the query of fuel_totals
SelectFuelTotals(p) ==
    /\ pc[p] = "rank_fuels"
    /\ locals[p].at = "begin"
    /\ LET types == {r.fuel : r \in CountryFuel}
           key == [f \in types |-> FuelTotal(CountryFuel, f)]
       IN  \E order \in DescOrders(types, key) :
              locals' = [locals EXCEPT
                           ![p].at = IF order = <<>> THEN "all_time" ELSE "update",
                           ![p].fuel_totals =
                               [i \in DOMAIN order |-> <<order[i], key[order[i]]>>],
                           ![p].rank = 1]
    /\ UNCHANGED <<query_frame, rank_passes, pc, idx>>

\* Fuel.objects.filter(type=fuel_type).update(**values)
UpdateFuel(fuels, fuel_type, values) ==
    {IF r.type = fuel_type THEN Assigned(r, values) ELSE r : r \in fuels}

\* _apply_rankings, lines 275-279: the update of one row of fuel_totals
UpdateFuelRank(p) ==
    /\ pc[p] = "rank_fuels"
    /\ locals[p].at = "update"
    /\ LET row == locals[p].fuel_totals[locals[p].rank]
       IN  Fuel' = UpdateFuel(Fuel, row[1],
                      [rank |-> locals[p].rank,
                       generation_latest_12_months |-> row[2]])
    /\ locals' = [locals EXCEPT
                    ![p].at = IF locals[p].rank = Len(locals[p].fuel_totals)
                              THEN "all_time" ELSE "update",
                    ![p].rank = locals[p].rank + 1]
    /\ UNCHANGED <<write_frame, Country, CountryFuel, CountryFuelYear, pc, idx,
                   last_run, prev_run>>

\* The end of handle: the run is over.  Its tables are those of the staging
\* table as it is only if no extract_ember and no load_data has run.
EndRun(p) ==
    /\ pc' = [pc EXCEPT ![p] = "done"]
    /\ last_run' = Some([requested |-> requested[p],
                         fresh |-> /\ \A q \in Procs : upsert_pc[q] = "idle"
                                   /\ load_locals.at = "idle",
                         tables |-> <<Country, Fuel', CountryFuel, CountryFuelYear>>])
    /\ prev_run' = last_run
    /\ locals' = [locals EXCEPT ![p] = BlankLocals]

\* _apply_rankings, lines 282-287: the query of all_time_totals, whose rows
\* come in an order that the query does not fix
SelectAllTime(p) ==
    /\ pc[p] = "rank_fuels"
    /\ locals[p].at = "all_time"
    /\ LET types == {o.fuel_type : o \in MonthlyGenerationData}
           total == [f \in types |->
                       Generation({o \in MonthlyGenerationData : o.fuel_type = f})]
       IN  \E order \in DescOrders(types, [f \in types |-> 0]) :
              IF order = <<>>
              THEN UNCHANGED Fuel /\ EndRun(p)
              ELSE /\ locals' = [locals EXCEPT
                                   ![p].at = "update_all_time",
                                   ![p].all_time_totals =
                                       [i \in DOMAIN order |->
                                           <<order[i], total[order[i]]>>],
                                   ![p].rank = 1]
                   /\ UNCHANGED <<pc, last_run, prev_run, Fuel>>
    /\ UNCHANGED <<write_frame, Country, CountryFuel, CountryFuelYear, idx>>

\* _apply_rankings, lines 287-288: the update of one row of all_time_totals
UpdateAllTime(p) ==
    /\ pc[p] = "rank_fuels"
    /\ locals[p].at = "update_all_time"
    /\ LET row == locals[p].all_time_totals[locals[p].rank]
       IN  Fuel' = UpdateFuel(Fuel, row[1], [generation_all_time |-> row[2]])
    /\ IF locals[p].rank = Len(locals[p].all_time_totals)
       THEN EndRun(p)
       ELSE /\ locals' = [locals EXCEPT ![p].rank = locals[p].rank + 1]
            /\ UNCHANGED <<pc, last_run, prev_run>>
    /\ UNCHANGED <<write_frame, Country, CountryFuel, CountryFuelYear, idx>>

\* A statement of transform_and_load
Statement(p) ==
    \/ RecordsExist(p)
    \/ QueryDates(p)
    \/ QueryFirst(p)
    \/ QueryRecords(p)
    \/ LoadCountry(p)
    \/ QueryFuelTypes(p)
    \/ QueryFuelRecords(p)
    \/ LoadFuelRow(p)
    \/ LoadCountryFuelRow(p)
    \/ LoadAnnualRowOf(p)
    \/ SelectCountries(p)
    \/ SaveCountryRank(p)
    \/ SelectFuelTotals(p)
    \/ UpdateFuelRank(p)
    \/ SelectAllTime(p)
    \/ UpdateAllTime(p)

\* ------------------------------------- extract_ember processes side by side
\* update_or_create of the staging table is the SELECT of get_or_create and
\* then an INSERT or an UPDATE, and the table has no constraint that would
\* reject the INSERT of a key that a row has.

\* The variables that a step of an extract_ember process leaves alone.
upsert_frame ==
    <<tables, pc, requested, country_codes, idx, rank_passes, runs, extracts,
      prev_run, win_vars, ext_vars, locals>>

\* The lookup of update_or_create: the ids of the rows that have the key
\* of the fetched record r of `code`
FoundIds(staging, code, r) ==
    {row.id : row \in {q \in staging : /\ q.country_code = code
                                       /\ <<q.date, q.fuel_type>> = RecordKey(r)}}

\* The write of update_or_create: the row found is updated, a row is
\* created where none was found
SavedRows(staging, code, r, found) ==
    LET blank == [id |-> Cardinality(staging) + 1,
                  country |-> "", country_code |-> code,
                  is_aggregate_entity |-> FALSE,
                  date |-> RecordKey(r)[1], fuel_type |-> RecordKey(r)[2],
                  is_aggregate_series |-> FALSE,
                  generation_twh |-> 0, share_of_generation_pct |-> 0]
    IN  IF found = {}
        THEN staging \cup {StagedRow(blank, r)}
        ELSE {IF row.id \in found THEN StagedRow(row, r) ELSE row : row \in staging}

\* handle, lines 60-76: the country codes are resolved
UpsertBegin(p, req) ==
    /\ upsert_pc[p] = "idle"
    /\ IF Range(RequestedCodes(req)) \subseteq CountryCode
       THEN /\ upsert_codes' = [upsert_codes EXCEPT ![p] = RequestedCodes(req)]
            /\ upsert_pc' = [upsert_pc EXCEPT ![p] = "fetch"]
       ELSE /\ upsert_pc' = [upsert_pc EXCEPT ![p] = "failed"]
            /\ UNCHANGED upsert_codes
    /\ UNCHANGED <<MonthlyGenerationData, upsert_records, upsert_found,
                   upsert_frame, last_run>>

\* handle, lines 81-100: the records of the next country are fetched, with
\* the API at revision rev
UpsertFetch(p, rev) ==
    /\ upsert_pc[p] = "fetch"
    /\ IF upsert_codes[p] = <<>>
       THEN /\ upsert_pc' = [upsert_pc EXCEPT ![p] = "done"]
            /\ UNCHANGED <<upsert_codes, upsert_records>>
       ELSE IF fetch_country(Head(upsert_codes[p]), rev) = <<>>
       THEN /\ upsert_codes' = [upsert_codes EXCEPT ![p] = Tail(upsert_codes[p])]
            /\ UNCHANGED <<upsert_pc, upsert_records>>
       ELSE /\ upsert_records' = [upsert_records EXCEPT ![p] =
                                     fetch_country(Head(upsert_codes[p]), rev)]
            /\ upsert_pc' = [upsert_pc EXCEPT ![p] = "get"]
            /\ UNCHANGED upsert_codes
    /\ UNCHANGED <<MonthlyGenerationData, upsert_found, upsert_frame, last_run>>

\* lines 103-108, _parse_date and the lookup of update_or_create: get()
\* raises MultipleObjectsReturned where more than one row has the key, and
\* the exception of either leaves handle
UpsertGet(p) ==
    /\ upsert_pc[p] = "get"
    /\ LET r == Head(upsert_records[p])
           found == IF Parses(r.date)
                    THEN FoundIds(MonthlyGenerationData, Head(upsert_codes[p]), r)
                    ELSE {}
       IN  IF ~Parses(r.date) \/ Cardinality(found) > 1
           THEN /\ upsert_pc' = [upsert_pc EXCEPT ![p] = "failed"]
                /\ UNCHANGED upsert_found
           ELSE /\ upsert_pc' = [upsert_pc EXCEPT ![p] = "save"]
                /\ upsert_found' = [upsert_found EXCEPT ![p] = found]
    /\ UNCHANGED <<MonthlyGenerationData, upsert_codes, upsert_records,
                   upsert_frame, last_run>>

\* update_or_create, the write: the row found is updated, a row is created
\* where none was found
UpsertSave(p) ==
    /\ upsert_pc[p] = "save"
    /\ MonthlyGenerationData' =
          SavedRows(MonthlyGenerationData, Head(upsert_codes[p]),
                    Head(upsert_records[p]), upsert_found[p])
    /\ upsert_records' = [upsert_records EXCEPT ![p] = Tail(upsert_records[p])]
    /\ IF Tail(upsert_records[p]) = <<>>
       THEN /\ upsert_pc' = [upsert_pc EXCEPT ![p] = "fetch"]
            /\ upsert_codes' = [upsert_codes EXCEPT ![p] = Tail(upsert_codes[p])]
       ELSE /\ upsert_pc' = [upsert_pc EXCEPT ![p] = "get"]
            /\ UNCHANGED upsert_codes
    /\ last_run' = IF last_run = None THEN None
                   ELSE Some([last_run[1] EXCEPT !.fresh = FALSE])
    /\ UNCHANGED <<upsert_found, upsert_frame>>

\* No extract_ember process is between its start and its end.
Settled == \A p \in Procs : upsert_pc[p] \in {"done", "failed"}

\* Two extract_ember processes fetch the same keys of FRA; the commands
\* that follow them run one after the other.
NextUpsert ==
    \/ UpsertBegin("p1", <<"FRA">>)
    \/ UpsertBegin("p2", <<"fra">>)
    \/ UpsertFetch("p1", "d")
    \/ UpsertFetch("p2", "e")
    \/ \E p \in Procs :
          \/ UpsertGet(p)
          \/ UpsertSave(p)
    \/ Settled /\ Quiet /\ ExtractEmber(<<"FRA">>, "d", {}, "key")
    \/ Settled /\ Quiet /\ Start("p1", <<"Fra">>)
    \/ ProcessCountry("p1")
    \/ RankCountries("p1")
    \/ RankFuels("p1")

SpecUpsert == Init /\ [][NextUpsert]_vars

\* ------------------------------------------------ commands side by side
\* Two transform_and_load processes and an extract_ember process over all
\* countries run at the same time, statement by statement.
NextConcurrent ==
    \/ UpsertBegin("p1", <<>>)
    \/ UpsertFetch("p1", "e")
    \/ UpsertGet("p1")
    \/ UpsertSave("p1")
    \/ Start("p1", <<"Fra">>)
    \/ Start("p2", <<"XXX", "deu">>)
    \/ \E p \in Procs : Statement(p)

SpecConcurrent == Init /\ [][NextConcurrent]_vars

\* ----------------------------------------------------------------- load_data
\* load_data is the command that the two commands of the pipeline replaced;
\* it stages the records of a country and writes Country, Fuel and
\* CountryFuel of the records it fetched, not of the staging table.

\* A fetched record as the comprehensions of load_data read it.
Fetched(r) ==
    [date |-> _parse_date(r.date), fuel_type |-> r.series,
     generation_twh |-> OrZero(r.generation_twh),
     share_of_generation_pct |-> OrZero(r.share_of_generation_pct)]

\* load_data, lines 196-201: sum(total_by_date.get(d, 0.0) for d in dates)
LoadDataTotal(raw_records, dates) ==
    SumSeq([i \in DOMAIN dates |->
        LET at == {j \in DOMAIN raw_records :
                      _parse_date(raw_records[j].date) = dates[i]}
        IN  SumFn([j \in at |-> OrZero(raw_records[j].generation_twh)], at)])

\* load_data, lines 192-215: Country.objects.update_or_create
LoadDataCountry(countries, code, raw_records, windows) ==
    LET defaults ==
            [name |-> raw_records[1].entity,
             summary |-> "",
             electricity_rank |-> 0,
             generation_latest_12_months |-> LoadDataTotal(raw_records, windows[1]),
             generation_previous_12_months |-> LoadDataTotal(raw_records, windows[2])]
        blank == [code |-> "", name |-> "", summary |-> "",
                  electricity_rank |-> 0,
                  generation_latest_12_months |-> 0,
                  generation_previous_12_months |-> 0,
                  latest_month |-> 0, low_carbon_pct |-> None]
    IN  update_or_create(countries, [code |-> code], defaults, blank)

\* load_data, lines 228-244 and 261-270: CountryFuel.objects.update_or_create
\* of the fuel type whose records are fuel_records
LoadDataCountryFuel(country_fuels, code, fuel_type, fuel_records, windows) ==
    LET defaults ==
            [share |->
                SumSeq([i \in DOMAIN windows[1] |->
                           ShareByDate(fuel_records, windows[1][i])])
                \div Len(windows[1]),
             latest_month |-> windows[1][Len(windows[1])],
             generation_latest_12_months |->
                SumSeq([i \in DOMAIN windows[1] |->
                           FuelByDate(fuel_records, windows[1][i])]),
             generation_previous_12_months |->
                SumSeq([i \in DOMAIN windows[2] |->
                           FuelByDate(fuel_records, windows[2][i])])]
        blank == [country |-> "", fuel |-> "", share |-> 0,
                  latest_month |-> 0,
                  generation_latest_12_months |-> 0,
                  generation_previous_12_months |-> 0,
                  month_yoy_growth |-> None, annual_yoy_growth |-> None,
                  generation_latest_month |-> 0, share_latest_month |-> 0]
    IN  update_or_create(country_fuels, [country |-> code, fuel |-> fuel_type],
                         defaults, blank)

\* load_data, lines 252-258: Fuel.objects.update_or_create
LoadDataFuel(fuels, fuel_type) ==
    LET blank == [type |-> "", rank |-> 0, summary |-> "",
                  generation_latest_12_months |-> 0,
                  generation_all_time |-> 0]
    IN  update_or_create(fuels, [type |-> fuel_type],
                         [rank |-> 0, summary |-> ""], blank)

\* The variables that no statement of load_data changes.
load_frame ==
    <<CountryFuelYear, pc, requested, country_codes, idx, rank_passes, runs,
      prev_run, win_vars, upsert_vars, locals, extract_status, extract_log,
      extract_args>>

\* The country of the loop iteration that load_data is in.
LoadDataCode == Head(load_locals.codes)

\* An exception leaves handle.
LoadDataRaise(exc) ==
    /\ load_locals' = [BlankLoad EXCEPT !.at = "failed"]
    /\ load_status' = exc

\* `continue`, or the end of the body of the loop over country_codes
LoadDataNextCountry ==
    load_locals' = [load_locals EXCEPT
                      !.at = "fetch", !.codes = Tail(load_locals.codes),
                      !.raw_records = <<>>, !.todo = <<>>, !.found = {},
                      !.windows = << <<>>, <<>> >>, !.fuel_types = <<>>]

\* handle, lines 105-129: the country codes are resolved and the client is
\* made, for --country req
LoadDataBegin(req, rev, down, api_key, strict) ==
    /\ load_locals.at \in {"idle", "done", "failed"}
    /\ extracts < MaxLoads
    /\ extracts' = extracts + 1
    /\ IF Range(RequestedCodes(req)) \subseteq CountryCode /\ EmberApiClient(api_key)
       THEN /\ load_locals' = [BlankLoad EXCEPT
                                 !.at = "fetch", !.rev = rev, !.down = down,
                                 !.strict = strict, !.codes = RequestedCodes(req)]
            /\ UNCHANGED load_status
       ELSE LoadDataRaise("CommandError")
    /\ UNCHANGED <<MonthlyGenerationData, Country, Fuel, CountryFuel, last_run,
                   load_frame>>

\* handle, lines 131-150: the records of the next country are fetched; after
\* the last country the ranking begins
LoadDataFetch ==
    /\ load_locals.at = "fetch"
    /\ IF load_locals.codes = <<>>
       THEN load_locals' = [load_locals EXCEPT !.at = "rank_countries"]
       ELSE LET raw_records == fetch_country(LoadDataCode, load_locals.rev)
            IN  IF LoadDataCode \in load_locals.down \/ raw_records = <<>>
                THEN LoadDataNextCountry
                ELSE load_locals' = [load_locals EXCEPT
                                       !.at = "get",
                                       !.raw_records = raw_records,
                                       !.todo = raw_records]
    /\ UNCHANGED <<MonthlyGenerationData, Country, Fuel, CountryFuel, last_run,
                   extracts, load_status, load_frame>>

\* handle, lines 158-163: _parse_date and the lookup of update_or_create,
\* either of which may raise
LoadDataGet ==
    /\ load_locals.at = "get"
    /\ LET r == Head(load_locals.todo)
       IN  IF ~Parses(r.date)
           THEN LoadDataRaise(ParseError(r.date))
           ELSE LET found == FoundIds(MonthlyGenerationData, LoadDataCode, r)
                IN  IF Cardinality(found) > 1
                    THEN LoadDataRaise("MultipleObjectsReturned")
                    ELSE /\ load_locals' = [load_locals EXCEPT
                                              !.at = "save", !.found = found]
                         /\ UNCHANGED load_status
    /\ UNCHANGED <<MonthlyGenerationData, Country, Fuel, CountryFuel, last_run,
                   extracts, load_frame>>

\* handle, lines 163-174: the write of update_or_create
LoadDataSave ==
    /\ load_locals.at = "save"
    /\ MonthlyGenerationData' =
          SavedRows(MonthlyGenerationData, LoadDataCode,
                    Head(load_locals.todo), load_locals.found)
    /\ load_locals' = [load_locals EXCEPT
                         !.at = IF Tail(load_locals.todo) = <<>>
                                THEN "country" ELSE "get",
                         !.todo = Tail(load_locals.todo),
                         !.found = {}]
    /\ last_run' = IF last_run = None THEN None
                   ELSE Some([last_run[1] EXCEPT !.fresh = FALSE])
    /\ UNCHANGED <<Country, Fuel, CountryFuel, extracts, load_status, load_frame>>

\* handle, lines 188-222: the windows of the dates fetched, the upsert of
\* the Country row, and the set fuel_types_in_country, which iterates in an
\* order that the language does not fix; line 225 skips a falsy fuel type
LoadDataCountryRow ==
    /\ load_locals.at = "country"
    /\ LET raw_records == load_locals.raw_records
           windows == DateWindows(Sorted({_parse_date(raw_records[j].date) :
                                             j \in DOMAIN raw_records}))
           types == {raw_records[j].series : j \in DOMAIN raw_records}
       IN  /\ Country' = LoadDataCountry(Country, LoadDataCode, raw_records, windows)
           /\ \E order \in DescOrders(types, [f \in types |-> 0]) :
                 LET fuel_types == SelectSeq(order, LAMBDA f : f # "")
                 IN  IF fuel_types = <<>>
                     THEN LoadDataNextCountry
                     ELSE load_locals' = [load_locals EXCEPT
                                            !.at = "fuel",
                                            !.windows = windows,
                                            !.fuel_types = fuel_types]
    /\ UNCHANGED <<MonthlyGenerationData, Fuel, CountryFuel, last_run, extracts,
                   load_status, load_frame>>

\* handle, lines 252-258: Fuel.objects.update_or_create
LoadDataFuelRow ==
    /\ load_locals.at = "fuel"
    /\ Fuel' = LoadDataFuel(Fuel, Head(load_locals.fuel_types))
    /\ load_locals' = [load_locals EXCEPT !.at = "country_fuel"]
    /\ UNCHANGED <<MonthlyGenerationData, Country, CountryFuel, last_run,
                   extracts, load_status, load_frame>>

\* handle, lines 228-244 and 261-270: CountryFuel.objects.update_or_create.
\* The command names four of the columns of CountryFuel; where the table
\* requires the others (`strict`), the INSERT of a new row raises
\* IntegrityError and the exception leaves handle.
LoadDataCountryFuelRow ==
    /\ load_locals.at = "country_fuel"
    /\ LET fuel_type == Head(load_locals.fuel_types)
           of == SelectSeq(load_locals.raw_records, LAMBDA r : r.series = fuel_type)
           fuel_records == [i \in DOMAIN of |-> Fetched(of[i])]
       IN  IF load_locals.strict /\ ~\E row \in CountryFuel :
                                        row.country = LoadDataCode /\ row.fuel = fuel_type
           THEN /\ LoadDataRaise("IntegrityError")
                /\ UNCHANGED CountryFuel
           ELSE /\ CountryFuel' =
                      LoadDataCountryFuel(CountryFuel, LoadDataCode, fuel_type,
                                          fuel_records, load_locals.windows)
                /\ IF Tail(load_locals.fuel_types) = <<>>
                   THEN LoadDataNextCountry
                   ELSE load_locals' = [load_locals EXCEPT
                                          !.at = "fuel",
                                          !.fuel_types = Tail(load_locals.fuel_types)]
                /\ UNCHANGED load_status
    /\ UNCHANGED <<MonthlyGenerationData, Country, Fuel, last_run, extracts,
                   load_frame>>

\* handle, lines 276-277: the query of countries_by_generation
LoadDataSelectCountries ==
    /\ load_locals.at = "rank_countries"
    /\ LET codes == {r.code : r \in Country}
           key == [c \in codes |->
                     (CHOOSE r \in Country : r.code = c).generation_latest_12_months]
       IN  \E order \in DescOrders(codes, key) :
              load_locals' = [load_locals EXCEPT
                                !.at = IF order = <<>> THEN "rank_fuels"
                                       ELSE "save_rank",
                                !.countries = order,
                                !.rank = 1]
    /\ UNCHANGED <<MonthlyGenerationData, Country, Fuel, CountryFuel, last_run,
                   extracts, load_status, load_frame>>

\* handle, lines 278-279: country_obj.save(update_fields=["electricity_rank"])
LoadDataSaveRank ==
    /\ load_locals.at = "save_rank"
    /\ LET country == {r \in Country :
                          r.code = load_locals.countries[load_locals.rank]}
       IN  Country' = (Country \ country)
                         \cup RankCountryRows(country, load_locals.countries)
    /\ load_locals' = [load_locals EXCEPT
                         !.at = IF load_locals.rank = Len(load_locals.countries)
                                THEN "rank_fuels" ELSE "save_rank",
                         !.rank = load_locals.rank + 1]
    /\ UNCHANGED <<MonthlyGenerationData, Fuel, CountryFuel, last_run, extracts,
                   load_status, load_frame>>

\* The end of handle
LoadDataEnd ==
    /\ load_locals' = [BlankLoad EXCEPT !.at = "done"]
    /\ load_status' = "ok"

\* handle, lines 291-297: the query of fuel_totals
LoadDataSelectFuelTotals ==
    /\ load_locals.at = "rank_fuels"
    /\ LET types == {r.fuel : r \in CountryFuel}
           key == [f \in types |-> FuelTotal(CountryFuel, f)]
       IN  \E order \in DescOrders(types, key) :
              IF order = <<>>
              THEN LoadDataEnd
              ELSE /\ load_locals' = [load_locals EXCEPT
                                        !.at = "update_rank",
                                        !.fuel_totals = order,
                                        !.rank = 1]
                   /\ UNCHANGED load_status
    /\ UNCHANGED <<MonthlyGenerationData, Country, Fuel, CountryFuel, last_run,
                   extracts, load_frame>>

\* handle, line 298: Fuel.objects.filter(type=...).update(rank=rank), which
\* writes the rank alone
LoadDataUpdateRank ==
    /\ load_locals.at = "update_rank"
    /\ Fuel' = UpdateFuel(Fuel, load_locals.fuel_totals[load_locals.rank],
                          [rank |-> load_locals.rank])
    /\ IF load_locals.rank = Len(load_locals.fuel_totals)
       THEN LoadDataEnd
       ELSE /\ load_locals' = [load_locals EXCEPT !.rank = load_locals.rank + 1]
            /\ UNCHANGED load_status
    /\ UNCHANGED <<MonthlyGenerationData, Country, CountryFuel, last_run,
                   extracts, load_frame>>

\* A statement of load_data
LoadDataStatement ==
    \/ LoadDataFetch
    \/ LoadDataGet
    \/ LoadDataSave
    \/ LoadDataCountryRow
    \/ LoadDataFuelRow
    \/ LoadDataCountryFuelRow
    \/ LoadDataSelectCountries
    \/ LoadDataSaveRank
    \/ LoadDataSelectFuelTotals
    \/ LoadDataUpdateRank

\* The invocations of load_data: <<--country arguments, API revision, the
\* countries whose request fails>>
LoadInputs ==
    {<< <<"fra">>, "d", {} >>, << <<>>, "e", {} >>, << <<"xxx">>, "a", {} >>,
     << <<"FRA">>, "c", {} >>, << <<"deu", "Gbr">>, "b", {"DEU"} >>}

\* load_data runs beside transform_and_load and extract_ember, statement by
\* statement: no command waits for another.
NextLoad ==
    \/ \E in \in LoadInputs, strict \in BOOLEAN :
          LoadDataBegin(in[1], in[2], in[3], "key", strict)
    \/ LoadDataStatement
    \/ runs < MaxLoads /\ Start("p1", <<"FRA">>)
    \/ Statement("p1")
    \/ UpsertBegin("p2", <<"fra">>)
    \/ UpsertFetch("p2", "e")
    \/ UpsertGet("p2")
    \/ UpsertSave("p2")

SpecLoad == Init /\ [][NextLoad]_vars

\* ------------------------------------------------- extract_ember on its own
\* --country arguments of extract_ember (<<>>: the option is absent)
ExtractRequests == {<<>>, <<"Gbr", "DEU">>, <<"fra", "xxx">>}

\* The states of the API: "a" and "b" are its data at two points in time,
\* "c" holds records without a date, with a date that is none, and with no
\* generation or share, "d" has three records of FRA and none of DEU and GBR.
Revisions == {"a", "b", "c", "d"}

\* The sets of countries whose request fails.
Outages == {{}, {"DEU"}, {"FRA", "GBR"}}

\* EMBER_API_KEY: unset or set
ApiKeys == {"", "key"}

NextExtract ==
    \E req \in ExtractRequests, rev \in Revisions, down \in Outages, api_key \in ApiKeys :
       ExtractEmber(req, rev, down, api_key)

SpecExtract == Init /\ [][NextExtract]_vars

\* --------------------------------------------- _get_date_windows on its own
\* The longest run of months a queryset covers.
MaxMonths == 26

FirstMonth == Date(2022, 11)

\* A queryset of one country: a run of n months from which the months of gaps
\* are missing, with two series in every even month.
WindowRecords(n, gaps) ==
    LET months == (FirstMonth .. (FirstMonth + n - 1)) \ gaps
    IN  {[date |-> d, fuel_type |-> "Gas"] : d \in months}
        \cup {[date |-> d, fuel_type |-> "Wind"] : d \in {m \in months : m % 2 = 0}}

InitWindows ==
    /\ InitCommands
    /\ \E n \in 0..MaxMonths :
          \E g1, g2 \in (FirstMonth - 1)..(FirstMonth + n - 1) :
             win_records = WindowRecords(n, {g1, g2})
    /\ win_result = None

\* latest_12, previous_12 = _get_date_windows(records)
GetDateWindows ==
    /\ win_result = None
    /\ win_result' = Some(_get_date_windows(win_records))
    /\ UNCHANGED <<win_records, etl_vars>>

NextWindows == GetDateWindows

SpecWindows == InitWindows /\ [][NextWindows]_vars

\* -------------------------------------------------------------- properties
\* The number of months of dates that come after d.
Later(dates, d) == Cardinality({e \in dates : e > d})

Ascending(s) == \A i \in 1..(Len(s) - 1) : s[i] < s[i + 1]

\* C2: for a country with n distinct months, latest12 is the min(n, 12) most
\* recent months in ascending order and previous12 the min(max(n - 12, 0), 12)
\* months immediately before them; the windows are disjoint, every month of
\* previous12 is earlier than every month of latest12, and 24 consecutive
\* months give the most recent 12 and the 12 before them.
C2_DateWindows ==
    win_result # None =>
        LET dates == {r.date : r \in win_records}
            n == Cardinality(dates)
            latest_12 == win_result[1][1]
            previous_12 == win_result[1][2]
        IN  /\ Len(latest_12) = Min2(n, 12)
            /\ Len(previous_12) = Min2(Max2(n - 12, 0), 12)
            /\ Ascending(latest_12)
            /\ Ascending(previous_12)
            /\ Range(latest_12) = {d \in dates : Later(dates, d) < 12}
            /\ Range(previous_12) =
                   {d \in dates : Later(dates, d) >= 12 /\ Later(dates, d) < 24}
            /\ Range(latest_12) \cap Range(previous_12) = {}
            /\ \A p \in Range(previous_12) : \A l \in Range(latest_12) : p < l
            /\ \A a \in dates :
                  dates = a..(a + 23) =>
                     /\ latest_12 = [i \in 1..12 |-> a + 11 + i]
                     /\ previous_12 = [i \in 1..12 |-> a + i - 1]

\* More than 24 months, with a month missing inside the previous window.
C2_Witness ==
    /\ win_result # None
    /\ Cardinality({r.date : r \in win_records}) > 24
    /\ Len(win_result[1][2]) = 12
    /\ win_result[1][2][12] - win_result[1][2][1] > 11

\* The country codes the loop of handle has been through in the run of p.
Passed(p) == {country_codes[p][i] : i \in 1..(idx[p] - 1)}

\* The staging rows of a country.
Staged(code) == {o \in MonthlyGenerationData : o.country_code = code}

\* The run of transform_and_load has completed.
Finished == pc["p1"] = "done"

\* ... and staging has not been written since.
Completed == Finished /\ last_run[1].fresh

\* The run before the last one completed, if staging was not written since.
Repeated ==
    /\ Finished
    /\ prev_run # None
    /\ prev_run[1].fresh
    /\ prev_run[1].requested = requested["p1"]

\* C1: two consecutive runs of transform_and_load over the same staging rows
\* with the same --country selection leave Country, Fuel, CountryFuel and
\* CountryFuelYear as one run does, and there is never more than one
\* CountryFuel row per (country, fuel) or CountryFuelYear row per
\* (country, fuel, year).
C1_Idempotent ==
    /\ Repeated => tables = prev_run[1].tables
    /\ \A r, q \in CountryFuel :
          (r.country = q.country /\ r.fuel = q.fuel) => r = q
    /\ \A r, q \in CountryFuelYear :
          (r.country = q.country /\ r.fuel = q.fuel /\ r.year = q.year) => r = q

\* No two countries and no two fuels have the same 12-month total.
NoTies ==
    /\ \A r, q \in Country :
          r.generation_latest_12_months = q.generation_latest_12_months => r = q
    /\ \A f, g \in {r.fuel : r \in CountryFuel} :
          FuelTotal(CountryFuel, f) = FuelTotal(CountryFuel, g) => f = g

\* C1 where no ranking has a tie to break.
C1_IdempotentNoTies ==
    (Repeated /\ NoTies) => tables = prev_run[1].tables

\* A second run over rows where no ranking has a tie to break.
C1_NoTiesWitness ==
    Repeated /\ NoTies /\ Cardinality(Country) > 1

\* A Country row but for its rank.
Unranked(r) == [r EXCEPT !.electricity_rank = 0]

\* C7: two ranking passes over the same Country table contents assign the
\* same electricity_rank to every country, those with equal rolling_latest
\* included.
C7_TieBreak ==
    (/\ Finished
     /\ prev_run # None
     /\ {Unranked(r) : r \in Country} = {Unranked(r) : r \in prev_run[1].tables[1]})
    => Country = prev_run[1].tables[1]

\* C6: after a completed run the electricity_rank values of the Country rows
\* are exactly 1..N, each once, and a smaller rank never goes with a smaller
\* rolling_latest; the rows of countries outside --country are ranked too.
C6_Ranks ==
    Finished =>
        /\ \A r, q \in Country : r.code = q.code => r = q
        /\ {r.electricity_rank : r \in Country} = 1..Cardinality(Country)
        /\ \A r, q \in Country :
              r.electricity_rank < q.electricity_rank =>
                 r.generation_latest_12_months >= q.generation_latest_12_months

\* A run for FRA alone has ranked three countries, two of them equal.
C6_Witness ==
    /\ Finished
    /\ requested["p1"] = <<"Fra">>
    /\ Cardinality(Country) = 3
    /\ \E r, q \in Country :
          /\ r # q
          /\ r.generation_latest_12_months = q.generation_latest_12_months

\* C9: in a run the ranking pass executes once, after the upserts of every
\* country; between a country's upsert and the ranking pass its
\* electricity_rank is 0, and no Country row has rank 0 once the run completed.
C9_RankingOnce ==
    /\ pc["p1"] \in {"idle", "countries", "rank_countries"} =>
          rank_passes["p1"] = 0
    /\ pc["p1"] \in {"rank_fuels", "done"} =>
          /\ rank_passes["p1"] = 1
          /\ idx["p1"] = Len(country_codes["p1"]) + 1 \/ country_codes["p1"] = <<>>
    /\ pc["p1"] \in {"countries", "rank_countries"} =>
          \A r \in Country : r.code \in Passed("p1") => r.electricity_rank = 0
    /\ Finished => \A r \in Country : r.electricity_rank # 0

\* A second run is between the upsert of one country and the ranking pass,
\* while another country still has its rank of the first run.
C9_Witness ==
    /\ pc["p1"] = "countries"
    /\ \E r, q \in Country :
          /\ r.code \in Passed("p1") /\ r.electricity_rank = 0
          /\ q.electricity_rank > 0

\* The sum of generation_twh over staging rows.
Twh(rows) == SumFn([o \in rows |-> o.generation_twh], rows)

\* The months of a country with at least lo and fewer than hi later months.
MonthsBack(code, lo, hi) ==
    LET dates == {o.date : o \in Staged(code)}
    IN  {d \in dates : Later(dates, d) >= lo /\ Later(dates, d) < hi}

\* The staging rows of (code, fuel) in the months of `dates`.
StagedIn(code, fuel, dates) ==
    {o \in Staged(code) : o.fuel_type = fuel /\ o.date \in dates}

\* The staging rows of (code, fuel) in a calendar year.
StagedYear(code, fuel, year) ==
    {o \in Staged(code) : o.fuel_type = fuel /\ Year(o.date) = year}

\* C3: a CountryFuel row whose rolling_previous is 0 (an empty previous12
\* included) has a null annual_yoy_growth; a CountryFuelYear row whose fuel
\* total of the year before is absent or exactly 0 has yoy_growth 0, and
\* yoy_growth is never null.
C3_GrowthFallbacks ==
    /\ \A row \in CountryFuel :
          row.generation_previous_12_months = 0 => row.annual_yoy_growth = None
    /\ \A row \in CountryFuelYear : row.yoy_growth \in Int
    /\ Completed =>
          \A row \in CountryFuelYear :
             (/\ row.country \in Passed("p1")
              /\ Twh(StagedYear(row.country, row.fuel, row.year - 1)) = 0)
             => row.yoy_growth = 0

\* A completed run met each fallback: a fuel that generated nothing in a
\* previous12 that is not empty, a fuel of a country without previous12, a
\* year after a year of total 0, and a year after a year without rows.
C3_Witness ==
    /\ Completed
    /\ \E row \in CountryFuel :
          /\ row.country \in Passed("p1")
          /\ MonthsBack(row.country, 12, 24) # {}
          /\ row.generation_previous_12_months = 0
          /\ row.generation_latest_12_months > 0
    /\ \E row \in CountryFuel :
          /\ row.country \in Passed("p1")
          /\ MonthsBack(row.country, 12, 24) = {}
          /\ row.generation_latest_12_months > 0
    /\ \E row \in CountryFuelYear :
          /\ row.country \in Passed("p1")
          /\ row.generation > 0
          /\ StagedYear(row.country, row.fuel, row.year - 1) # {}
          /\ Twh(StagedYear(row.country, row.fuel, row.year - 1)) = 0
    /\ \E row \in CountryFuelYear :
          /\ row.country \in Passed("p1")
          /\ row.generation > 0
          /\ StagedYear(row.country, row.fuel, row.year - 1) = {}

\* The values a revised "Net imports" observation is given.
ImportValues == {0, 9}

\* C4: the generation of a "Net imports" observation never contributes to
\* low_carbon_pct: with any one of a country's "Net imports" observations
\* changed, transform_and_load computes the low_carbon_pct it stored.
C4_NetImports ==
    Completed =>
        \A c \in Country :
           c.code \in Passed("p1") =>
              \A o \in {q \in Staged(c.code) : q.fuel_type = "Net imports"} :
                 \A v \in ImportValues :
                    LET changed == (Staged(c.code) \ {o})
                                   \cup {[o EXCEPT !.generation_twh = v]}
                    IN  low_carbon_pct(changed, _get_date_windows(changed)[1])
                            = c.low_carbon_pct

\* A completed run stored a low_carbon_pct for a country that has "Net
\* imports" observations other than 0 in its latest 12 months.
C4_Witness ==
    /\ Completed
    /\ \E c \in Country :
          /\ c.code \in Passed("p1")
          /\ c.low_carbon_pct # None
          /\ c.low_carbon_pct[1] > 0
          /\ Twh(StagedIn(c.code, "Net imports", MonthsBack(c.code, 0, 12))) > 0

\* C5: a CountryFuelYear row is complete exactly when the staging rows of
\* its country and year, of any fuel, cover 12 distinct calendar months: 11
\* months give false, and the run after the 12th month arrived gives true.
C5_IsComplete ==
    Completed =>
        \A row \in CountryFuelYear :
           row.country \in Passed("p1") =>
              (row.is_complete <=>
                   Cardinality({Month(o.date) :
                                   o \in {q \in Staged(row.country) :
                                             Year(q.date) = row.year}}) = 12)

\* A year that the run before left incomplete is complete, its 12th month
\* being of another fuel than the row's.
C5_Witness ==
    /\ Completed
    /\ prev_run # None
    /\ \E row \in CountryFuelYear :
          /\ row.is_complete
          /\ Cardinality({Month(o.date) :
                             o \in StagedYear(row.country, row.fuel, row.year)}) = 11
          /\ \E old \in prev_run[1].tables[4] :
                /\ old.country = row.country
                /\ old.fuel = row.fuel
                /\ old.year = row.year
                /\ ~old.is_complete

\* C8: the CountryFuel row of (c, f) holds rolling_latest, the sum of f's
\* generation over the latest 12 months of c, and rolling_previous, the sum
\* over the 12 months before; where rolling_previous > 0 annual_yoy_growth is
\* (rolling_latest / rolling_previous - 1) * 100.  Monthly values 1..12 and
\* then 10 twelve times give 120, 78, about 53.846 and a latest month of 10.
C8_RollingSums ==
    Completed =>
        \A row \in CountryFuel :
           row.country \in Passed("p1") =>
              LET rolling_latest ==
                      Twh(StagedIn(row.country, row.fuel,
                                   MonthsBack(row.country, 0, 12)))
                  rolling_previous ==
                      Twh(StagedIn(row.country, row.fuel,
                                   MonthsBack(row.country, 12, 24)))
                  months == {o.date : o \in Staged(row.country)}
                  series == StagedIn(row.country, row.fuel, months)
              IN  /\ row.generation_latest_12_months = rolling_latest
                  /\ row.generation_previous_12_months = rolling_previous
                  /\ rolling_previous > 0 =>
                        row.annual_yoy_growth =
                           Some(((rolling_latest * 100 * Milli) \div rolling_previous)
                                - 100 * Milli)
                  /\ (/\ months = Date(2023, 1)..Date(2024, 12)
                      /\ {o.date : o \in series} = months
                      /\ \A o \in series :
                            o.generation_twh = IF Year(o.date) = 2023
                                               THEN Month(o.date) ELSE 10)
                     => /\ row.generation_latest_12_months = 120
                        /\ row.generation_previous_12_months = 78
                        /\ row.annual_yoy_growth = Some(53846)
                        /\ row.generation_latest_month = 10

\* A completed run wrote the row of the 24 months 1..12, 10..10, and a row
\* of a country whose previous window is short of 12 months.
C8_Witness ==
    /\ Completed
    /\ \E row \in CountryFuel :
          /\ row.country \in Passed("p1")
          /\ row.generation_latest_12_months = 120
          /\ row.generation_previous_12_months = 78
    /\ \E row \in CountryFuel :
          /\ row.country \in Passed("p1")
          /\ Cardinality(MonthsBack(row.country, 12, 24)) \in 1..11
          /\ row.generation_previous_12_months > 0

\* Process p is inside _apply_rankings.
InRankingPass(p) == pc[p] \in {"rank_countries", "rank_fuels"}

\* Process p has upserted the Country row of a country and not yet all the
\* other rows of that country.
Upserting(p) ==
    /\ pc[p] = "countries"
    /\ locals[p].at \in {"fuel_types", "fuel_records", "fuel", "country_fuel",
                         "annual"}

\* C10: runs of the pipeline exclude each other: one run is never inside its
\* ranking pass while another has begun its upserts and not finished them.
C10_MutualExclusion ==
    \A p, q \in Procs : ~(InRankingPass(p) /\ Upserting(q))


\* ------------------------------------------------ properties of extract_ember
\* A step of extract_ember.
ExtractStep == extracts' = extracts + 1

\* The codes of the command line are members of CountryCode and the
\* credential is set.
Configured(args) ==
    /\ Range(RequestedCodes(args.country)) \subseteq CountryCode
    /\ args.api_key # ""

\* The countries a run with `args` asks the API for, and those that answer.
Asked(args) == Range(RequestedCodes(args.country))

Answering(args) == Asked(args) \ args.down

\* The countries whose request the log reports as failed.
Failed(log) == {c \in CountryCode : <<c, "error">> \in Range(log)}

\* The staging row carries what update_or_create writes for the record r.
Carries(row, r) ==
    /\ row.country = r.entity
    /\ row.is_aggregate_entity = r.is_aggregate_entity
    /\ row.is_aggregate_series = r.is_aggregate_series
    /\ row.generation_twh = OrZero(r.generation_twh)
    /\ row.share_of_generation_pct = OrZero(r.share_of_generation_pct)

\* The positions of the well-formed records of raw_records with the key of row.
RecordsFor(row, raw_records) ==
    {i \in DOMAIN raw_records :
        /\ Parses(raw_records[i].date)
        /\ RecordKey(raw_records[i]) = <<row.date, row.fuel_type>>}

\* Every row of `rows` that raw_records has a well-formed record for carries
\* the values of the last such record.
CarryLatest(rows, raw_records) ==
    \A row \in rows :
       \A i \in RecordsFor(row, raw_records) :
          (\A j \in RecordsFor(row, raw_records) : j <= i) => Carries(row, raw_records[i])

\* Every well-formed record of raw_records has a row in `rows`.
AllStaged(rows, raw_records) ==
    \A i \in DOMAIN raw_records :
       Parses(raw_records[i].date) =>
          \E row \in rows : RecordKey(raw_records[i]) = <<row.date, row.fuel_type>>

\* C13: an extract_ember named an unknown country code, or run without the
\* API credential, ends with a CommandError before it fetched any country and
\* leaves the staging table as it was, whatever else the command line names.
C13_ConfigurationError ==
    [][(ExtractStep /\ ~Configured(extract_args'[1])) =>
          /\ extract_status' = "CommandError"
          /\ extract_log' = <<>>
          /\ MonthlyGenerationData' = MonthlyGenerationData]_vars

\* A run named a known and an unknown country, with the credential set and
\* rows staged before, and ended with a CommandError.
C13_Witness ==
    /\ extract_args # None
    /\ extract_args[1].country = <<"fra", "xxx">>
    /\ extract_args[1].api_key = "key"
    /\ extract_status = "CommandError"
    /\ MonthlyGenerationData # {}

\* C12: when the request of a country fails, extract_ember leaves the staging
\* rows of that country as they were, still fetches and stages every other
\* country it was asked for, and ends successfully.
C12_FetchFailure ==
    [][(ExtractStep /\ Failed(extract_log') # {}) =>
          /\ \A c \in Failed(extract_log') :
                RecordsOf(MonthlyGenerationData', c) = RecordsOf(MonthlyGenerationData, c)
          /\ \A c \in Answering(extract_args'[1]) :
                /\ \/ <<c, "staged">> \in Range(extract_log')
                   \/ /\ <<c, "empty">> \in Range(extract_log')
                      /\ fetch_country(c, extract_args'[1].rev) = <<>>
                /\ AllStaged(RecordsOf(MonthlyGenerationData', c),
                             fetch_country(c, extract_args'[1].rev))
          /\ extract_status' = "ok"]_vars

\* C15: no malformed record ends extract_ember: the run ends successfully,
\* every record with a date that parses is staged, and a missing generation
\* or share is staged as 0.
C15_MalformedRecords ==
    [][(ExtractStep /\ Configured(extract_args'[1])) =>
          /\ extract_status' = "ok"
          /\ \A c \in Answering(extract_args'[1]) :
                /\ AllStaged(RecordsOf(MonthlyGenerationData', c),
                             fetch_country(c, extract_args'[1].rev))
                /\ CarryLatest(RecordsOf(MonthlyGenerationData', c),
                               fetch_country(c, extract_args'[1].rev))]_vars

\* C16: extract_ember changes no row of Country, Fuel, CountryFuel and
\* CountryFuelYear.
C16_ExtractFrame ==
    [][ExtractStep => tables' = tables]_vars

\* An extract_ember ran after a transform_and_load had filled the four tables.
C16_Witness ==
    /\ last_run # None
    /\ ~last_run[1].fresh
    /\ Country # {} /\ Fuel # {} /\ CountryFuel # {} /\ CountryFuelYear # {}
    /\ extract_status = "ok"

\* C17: after any sequence of extract_ember runs the staging table holds at
\* most one row of a key (country_code, date, fuel_type), a row carries the
\* values of the latest record fetched of its key, and no run removes a row.
C17_Upsert ==
    [][/\ \A r, q \in MonthlyGenerationData' :
             (r.country_code = q.country_code /\ r.date = q.date
              /\ r.fuel_type = q.fuel_type) => r = q
       /\ \A r \in MonthlyGenerationData :
             \E q \in MonthlyGenerationData' :
                /\ q.id = r.id /\ q.country_code = r.country_code
                /\ q.date = r.date /\ q.fuel_type = r.fuel_type
       /\ (ExtractStep /\ Configured(extract_args'[1])) =>
             \A c \in Answering(extract_args'[1]) :
                CarryLatest(RecordsOf(MonthlyGenerationData', c),
                            fetch_country(c, extract_args'[1].rev))]_vars


\* ------------------------------------------- properties of transform_and_load
\* The four tables as the run of p1 found them: as the run completed before
\* it left them (extract_ember changes none of them).
TablesBefore ==
    LET before == IF pc["p1"] = "done" THEN prev_run ELSE last_run
    IN  IF before = None THEN <<{}, {}, {}, {}>> ELSE before[1].tables

\* The command line of p1 names a code that is no member of CountryCode.
UnknownRequested ==
    \E i \in DOMAIN requested["p1"] : Upper(requested["p1"][i]) \notin CountryCode

\* C14: a transform_and_load whose --country names a code that is not a known
\* country does not end successfully and changes no row of Country, Fuel,
\* CountryFuel and CountryFuelYear.
C14_UnknownCountry ==
    (pc["p1"] # "idle" /\ UnknownRequested) =>
        /\ pc["p1"] # "done"
        /\ tables = TablesBefore


\* The divisor of low_carbon_pct: what the country generated in its latest
\* 12 months, "Net imports" left out.
ExceptImports(code) ==
    Twh({o \in Staged(code) : /\ o.fuel_type # "Net imports"
                              /\ o.date \in MonthsBack(code, 0, 12)})

\* The divisor of month_yoy_growth: what the fuel generated in the month one
\* year before the latest month of the country.
YearBefore(code, fuel) ==
    Twh(StagedIn(code, fuel,
                 {ReplaceYearMinusOne(d) : d \in MonthsBack(code, 0, 1)}))

\* The divisor of the annual share: the non-aggregate generation of the year.
YearTotal(code, year) ==
    Twh({o \in Staged(code) : Year(o.date) = year /\ ~o.is_aggregate_series})

\* C18: no ratio is computed over a divisor that is 0 or negative: the
\* low_carbon_pct, annual_yoy_growth and month_yoy_growth of such a divisor
\* are null, the share and yoy_growth of a year are 0.
C18_Divisors ==
    Completed =>
        /\ \A c \in Country :
              (c.code \in Passed("p1") /\ ExceptImports(c.code) <= 0)
              => c.low_carbon_pct = None
        /\ \A row \in CountryFuel :
              row.country \in Passed("p1") =>
                 /\ Twh(StagedIn(row.country, row.fuel,
                                 MonthsBack(row.country, 12, 24))) <= 0
                    => row.annual_yoy_growth = None
                 /\ YearBefore(row.country, row.fuel) <= 0
                    => row.month_yoy_growth = None
        /\ \A row \in CountryFuelYear :
              row.country \in Passed("p1") =>
                 /\ YearTotal(row.country, row.year) <= 0 => row.share = 0
                 /\ Twh(StagedYear(row.country, row.fuel, row.year - 1)) <= 0
                    => row.yoy_growth = 0

\* A completed run met each divisor below 0: a country that generated less
\* than nothing, a fuel with a negative previous12 and a negative month one
\* year before, a year with a negative total, and the year after it.
C18_Witness ==
    /\ Completed
    /\ \E c \in Country :
          c.code \in Passed("p1") /\ ExceptImports(c.code) < 0
    /\ \E row \in CountryFuel :
          /\ row.country \in Passed("p1")
          /\ row.generation_previous_12_months < 0
          /\ row.generation_latest_12_months > 0
          /\ YearBefore(row.country, row.fuel) < 0
          /\ row.generation_latest_month > 0
    /\ \E row \in CountryFuelYear :
          /\ row.country \in Passed("p1")
          /\ YearTotal(row.country, row.year) < 0
          /\ row.generation # 0
    /\ \E row \in CountryFuelYear :
          /\ row.country \in Passed("p1")
          /\ Twh(StagedYear(row.country, row.fuel, row.year - 1)) < 0
          /\ row.generation > 0


\* C19: after a run there is a CountryFuelYear row for every processed
\* country, year and fuel other than "" with an observation of that fuel in
\* that year, years with observations of aggregate series only included,
\* and no row of a processed country without such an observation.
C19_AnnualRows ==
    Completed =>
        \A code \in Passed("p1") :
           /\ \A o \in Staged(code) :
                 o.fuel_type # "" =>
                    \E row \in CountryFuelYear :
                       /\ row.country = code
                       /\ row.fuel = o.fuel_type
                       /\ row.year = Year(o.date)
           /\ \A row \in CountryFuelYear :
                 row.country = code =>
                    StagedYear(code, row.fuel, row.year) # {}


RECURSIVE FreshTables(_, _, _)
\* The four tables a loop of handle over the countries `todo` builds from
\* the tables `built`, of the staging table alone (which holds one row of a
\* key, so that every query of a fuel type has one result).
FreshTables(built, staging, todo) ==
    IF todo = {} THEN built
    ELSE LET code == CHOOSE c \in todo : TRUE
             records == RecordsOf(staging, code)
         IN  FreshTables(
                ProcessedTables(built[1], built[2], built[3], built[4], code,
                                CHOOSE r \in FirstRecords(records) : TRUE, records,
                                CHOOSE l \in FuelRecordLists(records,
                                            {r.fuel_type : r \in records}) : TRUE),
                staging, todo \ {code})

\* A Country row without the columns that the staging table does not fix:
\* the summary, the rank, and the name (taken from any first record).
Derivable(r) == [r EXCEPT !.summary = "", !.electricity_rank = 0, !.name = ""]

\* The tables are what `fresh`, built of the staging table alone, holds:
\* Country up to the summary and the order of tied ranks.
SameAs(fresh) ==
    /\ CountryFuel = fresh[3]
    /\ CountryFuelYear = fresh[4]
    /\ {Derivable(r) : r \in Country} = {Derivable(r) : r \in fresh[1]}
    /\ \A r \in Country :
          r.name \in {o.country : o \in FirstRecords(Staged(r.code))}
    /\ LET codes == {r.code : r \in Country}
           key == [c \in codes |->
                     (CHOOSE r \in Country : r.code = c).generation_latest_12_months]
       IN  \E order \in DescOrders(codes, key) :
              \A r \in Country : r.electricity_rank = RankIn(order, r.code)

\* C20: after a transform_and_load over all countries, Country (but for the
\* summary), CountryFuel and CountryFuelYear are a function of the staging
\* table: they hold what a run over empty tables would have built, whatever
\* they held before the run.
C20_Refinement ==
    (Completed /\ requested["p1"] = <<>>) =>
        SameAs(FreshTables(<<{}, {}, {}, {}>>, MonthlyGenerationData,
                           {o.country_code : o \in MonthlyGenerationData}))


\* ------------------------------- properties of extract_ember side by side
\* C11: however the update_or_create calls of two extract_ember runs that
\* write the same keys interleave, neither run fails, and when both have
\* ended the staging table holds exactly one row of every key they wrote.
C11_ConcurrentUpsert ==
    /\ \A p \in Procs : upsert_pc[p] # "failed"
    /\ (\A p \in Procs : upsert_pc[p] = "done") =>
          \A r \in MonthlyGenerationData :
             Cardinality({q \in MonthlyGenerationData :
                             /\ q.country_code = r.country_code
                             /\ q.date = r.date
                             /\ q.fuel_type = r.fuel_type}) = 1

\* ------------------------------------------------ properties of the metrics
\* The latest month of a country: the most recent month it has a row of.
LatestMonths(code) == MonthsBack(code, 0, 1)

\* The staging rows of (code, fuel) in the latest month of the country.
LatestRows(code, fuel) == StagedIn(code, fuel, LatestMonths(code))

\* The staging rows of (code, fuel) in the same calendar month one year
\* before the latest month of the country.
PriorRows(code, fuel) ==
    StagedIn(code, fuel, {d - 12 : d \in LatestMonths(code)})

\* C22: month_yoy_growth compares what the fuel generated in the latest month
\* of the country (0 without a row) with the same calendar month one year
\* before: it is null exactly when the fuel has no row of that month or its
\* generation there is not above 0, and ((latest / prior) - 1) x 100
\* otherwise; the fixture of the test suite gets -16.667.
C22_MonthGrowth ==
    Completed =>
        \A row \in CountryFuel :
           row.country \in Passed("p1") =>
              LET latest == Twh(LatestRows(row.country, row.fuel))
                  prior == Twh(PriorRows(row.country, row.fuel))
              IN  /\ row.month_yoy_growth =
                        IF PriorRows(row.country, row.fuel) = {} \/ prior <= 0
                        THEN None
                        ELSE Some(((latest * 100 * Milli) \div prior)
                                  - 100 * Milli)
                  /\ row.generation_latest_month = latest

\* A completed run computed the growth of the fixture of the test suite (10
\* after 12 is -16.667 per cent), the growth of a fuel without a row in the
\* latest month of its country, and a null for a fuel without a row one year
\* before.
C22_Witness ==
    /\ Completed
    /\ \E row \in CountryFuel :
          /\ row.country \in Passed("p1")
          /\ row.month_yoy_growth = Some(0 - 16667)
          /\ row.latest_month = Date(2024, 12)
          /\ row.generation_latest_month = 10
          /\ row.share_latest_month = 70 * Milli
    /\ \E row \in CountryFuel :
          /\ row.country \in Passed("p1")
          /\ row.month_yoy_growth = Some(0 - 100 * Milli)
          /\ LatestRows(row.country, row.fuel) = {}
    /\ \E row \in CountryFuel :
          /\ row.country \in Passed("p1")
          /\ row.month_yoy_growth = None
          /\ PriorRows(row.country, row.fuel) = {}

\* What the low-carbon fuels of a country generated in its latest 12 months.
LowCarbon(code) ==
    Twh({o \in Staged(code) : /\ o.fuel_type \in LOW_CARBON_FUELS
                              /\ o.date \in MonthsBack(code, 0, 12)})

\* C23 as stated: low_carbon_pct is null exactly when the generation of the
\* latest 12 months, "Net imports" left out, adds up to 0, and is 100 x the
\* low-carbon part of that sum over the sum otherwise.
C23_NullAtZero ==
    Completed =>
        \A c \in Country :
           c.code \in Passed("p1") =>
              c.low_carbon_pct =
                 IF ExceptImports(c.code) = 0 THEN None
                 ELSE Some((LowCarbon(c.code) * 100 * Milli)
                           \div ExceptImports(c.code))

\* C23, amended: low_carbon_pct is null exactly when the generation of the
\* latest 12 months, "Net imports" left out, adds up to 0 or less, and is
\* 100 x the low-carbon part of that sum over the sum otherwise; rows
\* outside the latest 12 months have no part in it.
C23_LowCarbon ==
    Completed =>
        \A c \in Country :
           c.code \in Passed("p1") =>
              c.low_carbon_pct =
                 IF ExceptImports(c.code) <= 0 THEN None
                 ELSE Some((LowCarbon(c.code) * 100 * Milli)
                           \div ExceptImports(c.code))

\* A completed run stored a null for a country whose sum is below 0, and a
\* percentage between 0 and 100 for a country that has low-carbon rows
\* before its latest 12 months.
C23_Witness ==
    /\ Completed
    /\ \E c \in Country :
          /\ c.code \in Passed("p1")
          /\ ExceptImports(c.code) < 0
          /\ c.low_carbon_pct = None
    /\ \E c \in Country :
          /\ c.code \in Passed("p1")
          /\ c.low_carbon_pct \notin {None, Some(0), Some(100 * Milli)}
          /\ \E o \in Staged(c.code) :
                /\ o.fuel_type \in LOW_CARBON_FUELS
                /\ o.generation_twh > 0
                /\ o.date \notin MonthsBack(c.code, 0, 12)

\* C24: the generation of a CountryFuelYear row is the sum of generation over
\* all observations of its country and fuel in its year, aggregate series
\* included, and its share is 100 x generation / T, where T is the sum over
\* the observations of the year that are no aggregate series, or 0 when T
\* is not above 0.
C24_AnnualValues ==
    Completed =>
        \A row \in CountryFuelYear :
           row.country \in Passed("p1") =>
              /\ row.generation = Twh(StagedYear(row.country, row.fuel, row.year))
              /\ row.share =
                    IF YearTotal(row.country, row.year) > 0
                    THEN (row.generation * 100 * Milli)
                         \div YearTotal(row.country, row.year)
                    ELSE 0

\* The rows of CountryFuelYear whose year _load_annual_data visits: the
\* years of a processed country that have a row of no aggregate series.
VisitedYearRows ==
    {row \in CountryFuelYear :
        /\ row.country \in Passed("p1")
        /\ \E o \in Staged(row.country) :
              Year(o.date) = row.year /\ ~o.is_aggregate_series}

\* In the years that _load_annual_data visits, generation and share of a
\* CountryFuelYear row are the sums that C24 names.
C24_VisitedYears ==
    Completed =>
        \A row \in VisitedYearRows :
           /\ row.generation = Twh(StagedYear(row.country, row.fuel, row.year))
           /\ row.share =
                 IF YearTotal(row.country, row.year) > 0
                 THEN (row.generation * 100 * Milli)
                      \div YearTotal(row.country, row.year)
                 ELSE 0

\* A completed run wrote the row of a fuel that is an aggregate series with
\* a share above 0, and a row with share 0 in a year of a negative total.
C24_VisitedWitness ==
    /\ Completed
    /\ \E row \in VisitedYearRows :
          /\ row.share > 0
          /\ \E o \in StagedYear(row.country, row.fuel, row.year) :
                o.is_aggregate_series
    /\ \E row \in VisitedYearRows :
          /\ row.generation > 0
          /\ row.share = 0
          /\ YearTotal(row.country, row.year) < 0

\* ------------------------------------------------- properties of the ranking
\* What the CountryFuel rows of a fuel add up to, the rows of every country
\* included.
RollingOfFuel(fuel_type) ==
    LET of == {r \in CountryFuel : r.fuel = fuel_type}
    IN  SumFn([r \in of |-> r.generation_latest_12_months], of)

\* C25: after a completed run the ranks of the M Fuel rows are 1..M, each
\* held by one row, a smaller rank goes with a total of rolling_latest over
\* all CountryFuel rows of the fuel (countries the run did not process
\* included) that is not smaller, and no Fuel row is left with rank 0.
C25_FuelRanks ==
    Finished =>
        /\ {f.rank : f \in Fuel} = 1..Cardinality(Fuel)
        /\ \A f, g \in Fuel : f.rank = g.rank => f = g
        /\ \A f, g \in Fuel :
              f.rank < g.rank => RollingOfFuel(f.type) >= RollingOfFuel(g.type)
        /\ \A f \in Fuel : f.rank # 0

\* A run restricted to some countries completed and ranked four fuels or
\* more: one that it created, one that only countries outside the run have,
\* and two of different totals.
C25_Witness ==
    /\ Finished
    /\ requested["p1"] # <<>>
    /\ Cardinality(Fuel) >= 4
    /\ \E f \in Fuel : \A g \in TablesBefore[2] : g.type # f.type
    /\ \E f \in Fuel : \A r \in CountryFuel :
          r.fuel = f.type => r.country \notin Passed("p1")
    /\ \E f, g \in Fuel : RollingOfFuel(f.type) > RollingOfFuel(g.type)

\* The staging rows of a fuel type, of every country and month.
StagedFuel(fuel_type) == {o \in MonthlyGenerationData : o.fuel_type = fuel_type}

\* C26: after a completed run the generation_all_time of every Fuel row is
\* the sum of generation over all staging rows of its fuel type, of all
\* countries and months, whatever the windows and the --country option.
C26_AllTime ==
    Completed =>
        \A f \in Fuel : f.generation_all_time = Twh(StagedFuel(f.type))

\* A run restricted to some countries completed and left a fuel whose total
\* counts rows of a country outside the run and rows older than the latest
\* 24 months of their country.
C26_Witness ==
    /\ Completed
    /\ requested["p1"] # <<>>
    /\ \E f \in Fuel :
          /\ f.generation_all_time > f.generation_latest_12_months
          /\ \E o \in StagedFuel(f.type) :
                /\ o.country_code \notin Passed("p1")
                /\ o.generation_twh > 0
                /\ o.date \notin MonthsBack(o.country_code, 0, 24)

\* ---------------------------------------------- properties of the row sets
\* The fuel types other than "" that the staging rows of a country name.
StagedFuels(code) == {o.fuel_type : o \in Staged(code)} \ {""}

\* C27: at any time a CountryFuel row exists only if the staging table holds
\* a row of its country with its fuel type, which is not empty; after a run
\* that processed a country there is a CountryFuel row for every such fuel
\* type of the country; and no Fuel or CountryFuel row is ever created for
\* the empty fuel type.
C27_FuelRows ==
    /\ \A row \in CountryFuel : row.fuel \in StagedFuels(row.country)
    /\ \A f \in Fuel : f.type # ""
    /\ Completed =>
          \A code \in Passed("p1") :
             \A fuel \in StagedFuels(code) :
                \E row \in CountryFuel : row.country = code /\ row.fuel = fuel

\* A run completed that processed a country with rows of the empty fuel
\* type, and wrote the first CountryFuel row of a fuel for a country that
\* had rows of other fuels before.
C27_Witness ==
    /\ Completed
    /\ \E code \in Passed("p1") :
          /\ \E o \in Staged(code) : o.fuel_type = ""
          /\ \E row \in CountryFuel : row.country = code
    /\ \E row \in CountryFuel :
          /\ row.country \in Passed("p1")
          /\ \E old \in TablesBefore[3] : old.country = row.country
          /\ \A old \in TablesBefore[3] :
                ~(old.country = row.country /\ old.fuel = row.fuel)

\* ------------------------------------------------ properties of the windows
\* What the CountryFuel rows of a country add up to.
RollingOfCountry(code) ==
    LET of == {r \in CountryFuel : r.country = code}
    IN  SumFn([r \in of |-> r.generation_latest_12_months], of)

\* C28: the rolling totals of a Country row are the sums of generation over
\* all observations of the country, of every fuel type (aggregate series
\* and the empty fuel type included), in its latest 12 and its previous 12
\* months; so, with one staging row per key, rolling_latest is the sum of
\* the rolling_latest of its CountryFuel rows plus what the observations of
\* the empty fuel type generated in the latest 12 months.
C28_CountryTotals ==
    Completed =>
        \A c \in Country :
           c.code \in Passed("p1") =>
              /\ c.generation_latest_12_months =
                    Twh({o \in Staged(c.code) :
                            o.date \in MonthsBack(c.code, 0, 12)})
              /\ c.generation_previous_12_months =
                    Twh({o \in Staged(c.code) :
                            o.date \in MonthsBack(c.code, 12, 24)})
              /\ c.generation_latest_12_months =
                    RollingOfCountry(c.code)
                    + Twh(StagedIn(c.code, "", MonthsBack(c.code, 0, 12)))

\* A completed run processed a country with a previous12 total other than 0
\* and rows older than that, a country with rows of an aggregate series in
\* its latest 12 months, and a country with a row of the empty fuel type
\* there.
C28_Witness ==
    /\ Completed
    /\ \E c \in Country :
          /\ c.code \in Passed("p1")
          /\ c.generation_previous_12_months > 0
          /\ c.generation_latest_12_months # c.generation_previous_12_months
          /\ MonthsBack(c.code, 24, 25) # {}
    /\ \E c \in Country :
          /\ c.code \in Passed("p1")
          /\ \E o \in Staged(c.code) :
                /\ o.is_aggregate_series
                /\ o.generation_twh > 0
                /\ o.date \in MonthsBack(c.code, 0, 12)
    /\ \E c \in Country :
          /\ c.code \in Passed("p1")
          /\ Twh(StagedIn(c.code, "", MonthsBack(c.code, 0, 12))) # 0
          /\ RollingOfCountry(c.code) # c.generation_latest_12_months

\* C29: the windows applied to a fuel are those of its country: after a run
\* every CountryFuel row of a processed country has the latest_month of the
\* Country row, the most recent month with an observation of the country,
\* and a fuel without an observation in that month has a
\* generation_latest_month of 0 and a share_latest_month of 0.
C29_CountryWindows ==
    Completed =>
        \A row \in CountryFuel :
           row.country \in Passed("p1") =>
              /\ LatestMonths(row.country) = {row.latest_month}
              /\ \A c \in Country :
                    c.code = row.country => c.latest_month = row.latest_month
              /\ \E c \in Country : c.code = row.country
              /\ LatestRows(row.country, row.fuel) = {} =>
                    /\ row.generation_latest_month = 0
                    /\ row.share_latest_month = 0

\* A completed run processed a country with two fuels, one with an
\* observation in the latest month of the country, and one whose
\* observations end earlier and generated more than 0 in their last month.
C29_Witness ==
    /\ Completed
    /\ \E row, other \in CountryFuel :
          /\ row.country \in Passed("p1")
          /\ other.country = row.country
          /\ other.generation_latest_month > 0
          /\ other.share_latest_month > 0
          /\ LatestRows(row.country, row.fuel) = {}
          /\ row.generation_latest_12_months > 0
          /\ \E o \in Staged(row.country) :
                /\ o.fuel_type = row.fuel
                /\ o.generation_twh > 0
                /\ o.share_of_generation_pct > 0
                /\ \A q \in Staged(row.country) :
                      q.fuel_type = row.fuel => q.date <= o.date

\* ------------------------------------------------ the frame of the transform
\* A step of transform_and_load: any step that is not one of extract_ember.
TransformStep == extracts' = extracts

\* The rows of a table that belong to none of the countries `codes`, where
\* `field` is the column that names the country.
RowsOutside(rows, field, codes) == {r \in rows : r[field] \notin codes}

\* C30: transform_and_load never writes the staging table, and a run over
\* the countries S leaves every field other than the rank of the Country
\* rows, and every CountryFuel and CountryFuelYear row, of the countries
\* outside S as it was: only ranks and the Fuel rows may change for them.
C30_TransformFrame ==
    [][TransformStep =>
          LET S == Range(country_codes'["p1"])
          IN  /\ MonthlyGenerationData' = MonthlyGenerationData
              /\ {Unranked(r) : r \in RowsOutside(Country', "code", S)}
                    = {Unranked(r) : r \in RowsOutside(Country, "code", S)}
              /\ RowsOutside(CountryFuel', "country", S)
                    = RowsOutside(CountryFuel, "country", S)
              /\ RowsOutside(CountryFuelYear', "country", S)
                    = RowsOutside(CountryFuelYear, "country", S)]_vars

\* A run restricted to some countries has ended: it rewrote a Country row of
\* its own and a Fuel row, while a country outside the run has rows in the
\* three tables and a Country row that its staging rows have outdated.
C30_Witness ==
    /\ Finished
    /\ requested["p1"] # <<>>
    /\ \E c \in Country : c.code \in Passed("p1") /\ c \notin TablesBefore[1]
    /\ Fuel # TablesBefore[2]
    /\ \E c \in Country :
          /\ c.code \notin Range(country_codes["p1"])
          /\ c.generation_latest_12_months #
                Twh({o \in Staged(c.code) : o.date \in MonthsBack(c.code, 0, 12)})
          /\ \E r \in CountryFuel : r.country = c.code
          /\ \E r \in CountryFuelYear : r.country = c.code

\* ------------------------------------------- the order of the countries
\* The tables that _apply_rankings may leave of the tables `built`: one
\* for every pair of lists that its two ORDER BY may return.
RankedTables(built, staging) ==
    LET codes == {r.code : r \in built[1]}
        ckey == [c \in codes |->
                    (CHOOSE r \in built[1] : r.code = c).generation_latest_12_months]
        types == {r.fuel : r \in built[3]}
        fkey == [f \in types |-> FuelTotal(built[3], f)]
    IN  {<<RankCountryRows(built[1], co),
           AllTimeFuelRows(RankFuelRows(built[2], built[3], fo), staging),
           built[3], built[4]>> :
            co \in DescOrders(codes, ckey), fo \in DescOrders(types, fkey)}

\* What a run over the countries of p1, taken in one fixed order, may leave
\* of the tables that the run found.
OneOrder ==
    RankedTables(
        FreshTables(TablesBefore, MonthlyGenerationData,
                    {c \in Range(country_codes["p1"]) : Staged(c) # {}}),
        MonthlyGenerationData)

\* C21: the countries are processed independently of each other: over the
\* same staging rows, a run that takes the countries in any order and then
\* ranks once leaves the same Country, Fuel, CountryFuel and
\* CountryFuelYear rows.
C21_OrderIndependent ==
    Completed => OneOrder = {tables}

\* C21 where no ranking has a tie to break.
C21_OrderIndependentNoTies ==
    (Completed /\ NoTies) => OneOrder = {tables}

\* A run over three countries, two of them with rows of the same fuel,
\* completed where no ranking has a tie to break.
C21_NoTiesWitness ==
    /\ Completed
    /\ NoTies
    /\ country_codes["p1"] = <<"GBR", "FRA", "DEU">>
    /\ \E r, q \in CountryFuel : r.fuel = q.fuel /\ r.country # q.country

====
